---------------------------- MODULE Spec2Model ----------------------------
(***************************************************************************)
(* A model of the barbershop scheduling agent (BarbershopSchedulerAgent),  *)
(* its calendar adapters (MockGoogleCalendarClient, GoogleCalendarClient)  *)
(* and the Portuguese date/time phrase parser (TimeParser).                *)
(*                                                                         *)
(* Eight specifications share the module:                                  *)
(*   Spec        the agent's operations over a calendar adapter            *)
(*   SpecRun     the same agent driven by run(task) on tasks given as text *)
(*   SpecSlots   check_availability / get_available_slots as functions of  *)
(*               the date, the service and the adapter's get_events answer *)
(*   SpecParser  TimeParser.parse_datetime as a function of the phrase,    *)
(*               the reference moment and the wall clock                   *)
(*   SpecNextDay TimeParser.get_next_business_day, one loop step at a time *)
(*   SpecBooking create_appointment calls whose adapter round trips        *)
(*               interleave                                                *)
(*   SpecBusy    concurrent run() calls on one SimpleAgent                 *)
(*   SpecStore   the history and user tools over the MongoDB collections   *)
(*                                                                         *)
(* Representation.  A text is a sequence of one-character strings; an      *)
(* accented letter is one character, written with a tilde, acute, grave    *)
(* or cedilla mark before the base letter ("~a", "'a", "^a", ",c").  A     *)
(* date is its proleptic Gregorian ordinal, as datetime.date.toordinal     *)
(* gives it; a naive datetime is a record of that ordinal and the second   *)
(* of the day.                                                             *)
(***************************************************************************)
EXTENDS Integers, Sequences, FiniteSets, TLC

VARIABLES
    client,         \* Spec: which calendar adapter __init__ installed
    credentials,    \* Spec: whether GoogleCalendarClient.initialize can succeed
    events,         \* Spec: the events the calendar holds, by identifier
    event_counter,  \* Spec: MockGoogleCalendarClient.event_counter
    today,          \* Spec: datetime.now().date(), an ordinal
    last,           \* Spec: the last operation, its arguments and its result
    llm,            \* Spec: has_llm(), whether an LLM client is available
    task,           \* Spec: the task of the last run and the operation it chose
    query,          \* SpecSlots: date, service and get_events answer
    answer,         \* SpecSlots: what the operation returned
    phrase,         \* SpecParser: the text and base_date of the calls
    clock,          \* SpecParser: what datetime.now() reads
    extracted,      \* SpecParser: what a call of _extract_time returned
    parsed,         \* SpecParser: what each parse_datetime call returned
    search,         \* SpecNextDay: a call of get_next_business_day, step by step
    booking,        \* SpecBooking: the create_appointment calls in progress
    simple_agent,   \* SpecBusy: a SimpleAgent's is_busy and its run() calls
    db              \* SpecStore: the MongoDB collections and the last tool call

vars == <<client, credentials, events, event_counter, today, last, llm, task,
          query, answer, phrase, clock, extracted, parsed,
          search, booking, simple_agent, db>>

agentVars  == <<client, credentials, events, event_counter, today, last,
                llm, task>>
slotVars   == <<query, answer>>
parserVars == <<phrase, clock, extracted, parsed>>
laterVars  == <<search, booking, simple_agent, db>>

None == "None"

-----------------------------------------------------------------------------
(* datetime: the calendar arithmetic of Python's datetime module           *)

IsLeap(y) == (y % 4 = 0 /\ y % 100 # 0) \/ y % 400 = 0

DaysInMonth(y, m) ==
    IF m = 2 THEN (IF IsLeap(y) THEN 29 ELSE 28)
    ELSE IF m \in {4, 6, 9, 11} THEN 30 ELSE 31

DaysBeforeYear(y) ==
    LET p == y - 1 IN (p * 365) + (p \div 4) - (p \div 100) + (p \div 400)

RECURSIVE DaysBeforeMonth(_, _)
DaysBeforeMonth(y, m) ==
    IF m <= 1 THEN 0 ELSE DaysBeforeMonth(y, m - 1) + DaysInMonth(y, m - 1)

\* datetime(year, month, day) raises ValueError outside these ranges
ValidDate(y, m, d) ==
    /\ y \in 1..9999
    /\ m \in 1..12
    /\ d \in 1..DaysInMonth(y, m)

Ordinal(y, m, d) == DaysBeforeYear(y) + DaysBeforeMonth(y, m) + d

\* date.weekday(): Monday is 0, Sunday is 6
Weekday(n) == (n + 6) % 7

YearOf(n) ==
    CHOOSE y \in (n \div 366)..(n \div 365 + 1) :
        DaysBeforeYear(y) < n /\ n <= DaysBeforeYear(y + 1)

MonthOf(n) ==
    LET y == YearOf(n) IN
    CHOOSE m \in 1..12 :
        /\ DaysBeforeYear(y) + DaysBeforeMonth(y, m) < n
        /\ n <= DaysBeforeYear(y) + DaysBeforeMonth(y, m) + DaysInMonth(y, m)

DayOf(n) == n - DaysBeforeYear(YearOf(n)) - DaysBeforeMonth(YearOf(n), MonthOf(n))

SecondsPerDay == 86400

\* A naive datetime: the date's ordinal and the second of the day.
\* datetime.combine(date, time(hour, minute)) and datetime(y, m, d, hour, minute)
DateTime(ord, hour, minute) == [date |-> ord, sec |-> hour * 3600 + minute * 60]

DateOf(dt)   == dt.date
HourOf(dt)   == dt.sec \div 3600
MinuteOf(dt) == (dt.sec % 3600) \div 60

\* a < b and a <= b on datetimes
Before(a, b)   == a.date < b.date \/ (a.date = b.date /\ a.sec < b.sec)
NotAfter(a, b) == a.date < b.date \/ (a.date = b.date /\ a.sec <= b.sec)

\* dt + timedelta(minutes=n) and dt + timedelta(days=n), n >= 0
PlusMinutes(dt, n) ==
    LET t == dt.sec + n * 60 IN
    [date |-> dt.date + (t \div SecondsPerDay), sec |-> t % SecondsPerDay]

PlusDays(dt, n) == [date |-> dt.date + n, sec |-> dt.sec]

-----------------------------------------------------------------------------
(* BarbershopSchedulerAgent: configuration                                 *)

\* strftime("%A").lower() of a date
DayNames == <<"monday", "tuesday", "wednesday", "thursday", "friday",
              "saturday", "sunday">>

DayOfWeek(ord) == DayNames[Weekday(ord) + 1]

Closed == <<"closed">>

\* self.business_hours: "HH:MM" is <<HH, MM>>, "closed" is <<"closed">>
business_hours ==
    [d \in {DayNames[i] : i \in 1..7} |->
        CASE d = "friday"   -> [start |-> <<9, 0>>, end |-> <<19, 0>>]
          [] d = "saturday" -> [start |-> <<8, 0>>, end |-> <<17, 0>>]
          [] d = "sunday"   -> [start |-> Closed, end |-> Closed]
          [] OTHER          -> [start |-> <<9, 0>>, end |-> <<18, 0>>]]

\* self.services: the duration of each service, in minutes
services ==
    [s \in {"corte_simples", "corte_barba", "corte_completo", "barba",
            "sobrancelha"} |->
        CASE s = "corte_simples"  -> 30
          [] s = "corte_barba"    -> 45
          [] s = "corte_completo" -> 60
          [] s = "barba"          -> 30
          [] s = "sobrancelha"    -> 15]

DefaultDuration == 60

\* The step of the slot grid: for minute in [0, 30]
SlotMinutes == <<0, 30>>

\* The outcome of a conversion that raises ValueError (no ordinal is negative)
ValueError == -1

\* A date text: "%Y-%m-%d" digits as [fmt |-> "ymd", y, m, d]; a text of
\* another shape has fmt "other"; the empty text or None has fmt "empty".
DateText(y, m, d) == [fmt |-> "ymd", y |-> y, m |-> m, d |-> d]
OtherText == [fmt |-> "other", y |-> 0, m |-> 0, d |-> 0]
EmptyText == [fmt |-> "empty", y |-> 0, m |-> 0, d |-> 0]

\* datetime.strptime(date, "%Y-%m-%d").date(): the ordinal, or ValueError
strptime_date(date) ==
    IF date.fmt = "ymd" /\ ValidDate(date.y, date.m, date.d)
    THEN Ordinal(date.y, date.m, date.d)
    ELSE ValueError

\* strftime("%Y-%m-%d") of a date
strftime_date(ord) == DateText(YearOf(ord), MonthOf(ord), DayOf(ord))

-----------------------------------------------------------------------------
(* Calendar events as the adapters return them                             *)

\* An event's start or end: {"dateTime": <ISO text>} holds the wall-clock
\* datetime and the offset text; an all-day event holds no dateTime.
IsoText(dt, tz) == [has |-> TRUE, wall |-> dt, tz |-> tz]
NoDateTime == [has |-> FALSE, wall |-> DateTime(1, 0, 0), tz |-> ""]

\* datetime.fromisoformat(s.replace("Z", "+00:00")).replace(tzinfo=None):
\* the offset is dropped, the wall-clock reading kept
fromisoformat_naive(t) == t.wall

\* for hour in range(start_hour, end_hour): for minute in [0, 30]
SlotGrid(start_hour, end_hour) ==
    [i \in 1..(Len(SlotMinutes) * (end_hour - start_hour)) |->
        <<start_hour + ((i - 1) \div Len(SlotMinutes)),
          SlotMinutes[((i - 1) % Len(SlotMinutes)) + 1]>>]

\* occupied_periods: the events that carry both a start and an end dateTime
occupied_periods(existing_events) ==
    {<<e.start, e.end>> : e \in {x \in existing_events : x.start.has /\ x.end.has}}

\* event_start < slot_datetime < event_end: a slot that starts with an
\* event is not blocked
SlotIsBlockedStrict(slot_datetime, period) ==
    /\ Before(fromisoformat_naive(period[1]), slot_datetime)
    /\ Before(slot_datetime, fromisoformat_naive(period[2]))

\* if event_start <= slot_datetime < event_end
SlotIsBlocked(slot_datetime, period) ==
    /\ NotAfter(fromisoformat_naive(period[1]), slot_datetime)
    /\ Before(slot_datetime, fromisoformat_naive(period[2]))

\* _generate_available_slots(date, existing_events): the list of slot times
generate_available_slots(date, existing_events) ==
    LET ord   == strptime_date(date)
        hours == business_hours[DayOfWeek(ord)]
    IN  IF hours.start = Closed THEN <<>>
        ELSE LET Free(slot) ==
                     \A p \in occupied_periods(existing_events) :
                         ~SlotIsBlocked(DateTime(ord, slot[1], slot[2]), p)
             IN  SelectSeq(SlotGrid(hours.start[1], hours.end[1]), Free)

\* The answer of an operation; the fields an operation does not set keep
\* these values.
NoAnswer ==
    [op |-> "none", success |-> FALSE, kind |-> "none", available |-> FALSE,
     slots |-> <<>>, duration |-> 0]

\* check_availability(date) given today's date and the adapter's answer to
\* get_events for that day
check_availability(date, now_date, response) ==
    LET d   == IF date.fmt = "empty" THEN strftime_date(now_date + 1) ELSE date
        ord == strptime_date(d)
    IN  IF ord = ValueError
        THEN [NoAnswer EXCEPT !.op = "check_availability", !.kind = "error"]
        ELSE IF business_hours[DayOfWeek(ord)].start = Closed
        THEN [NoAnswer EXCEPT !.op = "check_availability", !.success = TRUE,
                              !.kind = "closed"]
        ELSE LET available_slots ==
                     generate_available_slots(d,
                         IF response.success THEN response.events ELSE {})
             IN  [NoAnswer EXCEPT !.op = "check_availability",
                                  !.success = TRUE, !.kind = "slots",
                                  !.available = Len(available_slots) > 0,
                                  !.slots = available_slots]

\* slot_end.hour < end_hour or (slot_end.hour == end_hour and slot_end.minute == 0)
FitsBeforeClose(slot_end, end_hour) ==
    \/ HourOf(slot_end) < end_hour
    \/ (HourOf(slot_end) = end_hour /\ MinuteOf(slot_end) = 0)

\* get_available_slots(date, service)
get_available_slots(date, service, now_date, response) ==
    LET d        == IF date.fmt = "empty" THEN strftime_date(now_date + 1) ELSE date
        duration == IF service # "" /\ service \in DOMAIN services
                    THEN services[service] ELSE DefaultDuration
        availability == check_availability(d, now_date, response)
    IN  IF availability.success /\ availability.available
        THEN LET ord == strptime_date(d)
                 end_hour == business_hours[DayOfWeek(ord)].end[1]
                 Suitable(slot) ==
                     FitsBeforeClose(
                         PlusMinutes(DateTime(ord, slot[1], slot[2]), duration),
                         end_hour)
             IN  [availability EXCEPT
                     !.op = "get_available_slots",
                     !.duration = duration,
                     !.slots = SelectSeq(availability.slots, Suitable)]
        ELSE availability

-----------------------------------------------------------------------------
(* BarbershopSchedulerAgent: validation and the availability check         *)

\* A time text: "%H:%M" digits as [fmt |-> "hm", h, mi]; "other" and
\* "empty" as for a date text.
TimeText(h, mi) == [fmt |-> "hm", h |-> h, mi |-> mi]
OtherTime == [fmt |-> "other", h |-> 0, mi |-> 0]
EmptyTime == [fmt |-> "empty", h |-> 0, mi |-> 0]

\* datetime.strptime(..., "%H:%M") accepts hours 0..23 and minutes 0..59
ValidTime(time) == time.fmt = "hm" /\ time.h \in 0..23 /\ time.mi \in 0..59

\* appointment_data.get("duration", 60): the duration key holds <<n>>, or
\* <<>> when the request carries no duration
DurationOf(req) == IF req.duration = <<>> THEN DefaultDuration ELSE req.duration[1]

required_fields == <<"customer_name", "service", "date", "time">>

\* not appointment_data.get(field)
FieldMissing(req, field) ==
    CASE field = "customer_name" -> req.customer_name = ""
      [] field = "service"       -> req.service = ""
      [] field = "date"          -> req.date.fmt = "empty"
      [] field = "time"          -> req.time.fmt = "empty"

\* The first required field that is missing, "" when none is
FirstMissing(req) ==
    LET missing == SelectSeq(required_fields, LAMBDA f : FieldMissing(req, f))
    IN  IF missing = <<>> THEN "" ELSE Head(missing)

NoDateTimeValue == DateTime(1, 0, 0)

Verdict(valid, rule, field, start, end) ==
    [valid |-> valid, rule |-> rule, field |-> field,
     start_datetime |-> start, end_datetime |-> end]

Invalid(rule, field) == Verdict(FALSE, rule, field, NoDateTimeValue, NoDateTimeValue)

\* validate_appointment with the service and date rules exchanged
validate_appointment_DateFirst(req, now_date) ==
    LET ord == strptime_date(req.date) IN
    IF FirstMissing(req) # "" THEN Invalid("required", FirstMissing(req))
    ELSE IF ord = ValueError THEN Invalid("date_format", "")
    ELSE IF ord < now_date THEN Invalid("past", "")
    ELSE IF req.service \notin DOMAIN services THEN Invalid("service", "")
    ELSE IF business_hours[DayOfWeek(ord)].start = Closed THEN Invalid("closed", "")
    ELSE IF ~ValidTime(req.time) THEN Invalid("raise", "")
    ELSE Verdict(TRUE, "ok", "", DateTime(ord, req.time.h, req.time.mi),
                 PlusMinutes(DateTime(ord, req.time.h, req.time.mi), DurationOf(req)))

\* validate_appointment without the business-hours rule
validate_appointment_NoClosedRule(req, now_date) ==
    LET ord == strptime_date(req.date) IN
    IF FirstMissing(req) # "" THEN Invalid("required", FirstMissing(req))
    ELSE IF req.service \notin DOMAIN services THEN Invalid("service", "")
    ELSE IF ord = ValueError THEN Invalid("date_format", "")
    ELSE IF ord < now_date THEN Invalid("past", "")
    ELSE IF ~ValidTime(req.time) THEN Invalid("raise", "")
    ELSE Verdict(TRUE, "ok", "", DateTime(ord, req.time.h, req.time.mi),
                 PlusMinutes(DateTime(ord, req.time.h, req.time.mi), DurationOf(req)))

\* _validate_appointment(appointment_data), today being now_date.  The rule
\* "raise" stands for the ValueError that strptime raises on the time text
\* after every rule has passed; create_appointment catches it.
validate_appointment(req, now_date) ==
    LET ord == strptime_date(req.date) IN
    IF FirstMissing(req) # "" THEN Invalid("required", FirstMissing(req))
    ELSE IF req.service \notin DOMAIN services THEN Invalid("service", "")
    ELSE IF ord = ValueError THEN Invalid("date_format", "")
    ELSE IF ord < now_date THEN Invalid("past", "")
    ELSE IF business_hours[DayOfWeek(ord)].start = Closed THEN Invalid("closed", "")
    ELSE IF ~ValidTime(req.time) THEN Invalid("raise", "")
    ELSE Verdict(TRUE, "ok", "", DateTime(ord, req.time.h, req.time.mi),
                 PlusMinutes(DateTime(ord, req.time.h, req.time.mi), DurationOf(req)))

\* if len(suggestions) >= 3: break
MaxSuggestions == 3

\* _generate_alternative_slots(date, duration): up to three slot times
generate_alternative_slots(date, duration) ==
    LET ord   == strptime_date(date)
        hours == business_hours[DayOfWeek(ord)]
    IN  IF hours.start = Closed THEN <<>>
        ELSE LET Fits(slot) ==
                     FitsBeforeClose(
                         PlusMinutes(DateTime(ord, slot[1], slot[2]), duration),
                         hours.end[1])
                 fitting == SelectSeq(SlotGrid(hours.start[1], hours.end[1]), Fits)
             IN  SubSeq(fitting, 1,
                        IF Len(fitting) < MaxSuggestions THEN Len(fitting)
                        ELSE MaxSuggestions)

\* _check_slot_availability answering that every slot is free
check_slot_availability_AlwaysFree(date, duration, existing_events) ==
    [available |-> TRUE, suggestions |-> <<>>]

\* _check_slot_availability given the adapter's answer to get_events
check_slot_availability(date, duration, existing_events) ==
    IF existing_events.success /\ existing_events.events # {}
    THEN [available |-> FALSE,
          suggestions |-> generate_alternative_slots(date, duration)]
    ELSE [available |-> TRUE, suggestions |-> <<>>]

-----------------------------------------------------------------------------
(* The calendar adapters                                                   *)

Failure == [success |-> FALSE, events |-> {}]

\* MockGoogleCalendarClient.get_events: every stored event, whatever the period
mock_get_events(stored, start_time, end_time) ==
    [success |-> TRUE, events |-> stored]

\* GoogleCalendarClient.get_events: a failure when initialize() fails or the
\* call raises; otherwise the items the backend lists for the period, which
\* the backend alone decides among the events it stores
google_get_events(stored, start_time, end_time) ==
    IF ~credentials THEN {Failure}
    ELSE {Failure} \cup {[success |-> TRUE, events |-> es] : es \in SUBSET stored}

\* self.calendar_client.get_events(...): the answers the adapter may give
get_events(stored, start_time, end_time) ==
    IF client = "mock" THEN {mock_get_events(stored, start_time, end_time)}
    ELSE google_get_events(stored, start_time, end_time)

\* create_event: "ok" stores the event under a new identifier; "error" is
\* a failed initialize() or a raised HttpError, and stores nothing
create_event_outcomes ==
    IF client = "mock" THEN {"ok"}
    ELSE IF ~credentials THEN {"error"}
    ELSE {"ok", "error"}

\* MockGoogleCalendarClient.delete_event answering as update_event and
\* get_event do for an unknown identifier
mock_delete_event_NotFound(stored, event_id) ==
    IF \E e \in stored : e.id = event_id THEN {"ok"} ELSE {"error"}

\* MockGoogleCalendarClient.delete_event: success whether or not the
\* identifier is stored
mock_delete_event(stored, event_id) ==
    IF \E e \in stored : e.id = event_id THEN {"ok"} ELSE {"gone"}

\* GoogleCalendarClient.delete_event: "ok" deleted the event, "gone" is
\* HttpError 410 (answered as success), "error" is a failed initialize(),
\* another HttpError or another exception
google_delete_event(stored, event_id) ==
    IF ~credentials THEN {"error"}
    ELSE IF \E e \in stored : e.id = event_id THEN {"ok", "error"}
    ELSE {"gone", "error"}

delete_event_outcomes(stored, event_id) ==
    IF client = "mock" THEN mock_delete_event(stored, event_id)
    ELSE google_delete_event(stored, event_id)

-----------------------------------------------------------------------------
(* Spec: the agent's operations                                            *)

\* The most events the calendar is asked to create in one behaviour
MaxEventId == 2

\* datetime.now().date() in the behaviours checked: 2024-08-04, a Sunday.
\* The day is closed, the day before is past, the next two days are open.
StartDay == Ordinal(2024, 8, 4)

Request(customer_name, service, date, time, duration) ==
    [customer_name |-> customer_name, service |-> service, date |-> date,
     time |-> time, duration |-> duration]

NoRequest == Request("", "", EmptyText, EmptyTime, <<>>)

ReqDates ==
    { EmptyText, DateText(2024, 2, 30), DateText(2024, 8, 3),
      DateText(2024, 8, 4), DateText(2024, 8, 5), DateText(2024, 8, 6) }

\* A time text and the duration key sent with it
ReqTimes ==
    { <<EmptyTime, <<>>>>, <<TimeText(25, 0), <<>>>>, <<TimeText(9, 0), <<>>>>,
      <<TimeText(9, 15), <<30>>>>, <<TimeText(9, 0), <<600>>>> }

Requests ==
    { Request(c, s, d, t[1], t[2]) :
        c \in {"", "Ana"}, s \in {"", "corte_simples", "manicure"},
        d \in ReqDates, t \in ReqTimes }

\* What an operation of the agent did: the operation, its arguments, the
\* result it returned (success and the kind of message), the adapter calls
\* it made, the calendar and the date it started from, and whether it is
\* a cancel that follows a cancel of the same identifier.
Outcome(op, req, id, success, kind, field, suggestions, calls) ==
    [op |-> op, request |-> req, event_id |-> id, success |-> success,
     kind |-> kind, field |-> field, suggestions |-> suggestions,
     calls |-> calls, before |-> events, now_date |-> today,
     again |-> (op = "cancel" /\ last.op = "cancel" /\ last.event_id = id)]

NoLast ==
    [op |-> "none", request |-> NoRequest, event_id |-> 0, success |-> FALSE,
     kind |-> "none", field |-> "", suggestions |-> <<>>, calls |-> <<>>,
     before |-> {}, now_date |-> 1, again |-> FALSE]

\* No run(task) made the last operation
NoTask == [text |-> <<>>, operation |-> ""]

\* Values the variables of a specification hold while another one runs
AgentIdle ==
    /\ client = "mock"
    /\ credentials = FALSE
    /\ events = {}
    /\ event_counter = 1
    /\ today = 1
    /\ last = NoLast
    /\ llm = FALSE
    /\ task = NoTask

SlotsIdle ==
    /\ query = None
    /\ answer = NoAnswer

ParserIdle ==
    /\ phrase = [text |-> <<>>, base_date |-> [date |-> 0, sec |-> 0]]
    /\ clock = [date |-> 1, sec |-> 0]
    /\ extracted = <<>>
    /\ parsed = <<>>

SearchIdle ==
    search = [dt |-> [date |-> 0, sec |-> 0], business_days |-> {},
              next_day |-> [date |-> 0, sec |-> 0], status |-> "idle"]

BookingIdle == booking = <<>>

SimpleAgentIdle ==
    simple_agent = [is_busy |-> FALSE, model_client |-> FALSE, runs |-> <<>>]

\* No tool was called yet
NoDbCall == [op |-> "none"]

DbIdle ==
    db = [conversation_history |-> {}, users |-> <<>>, customers |-> <<>>,
          call |-> NoDbCall]

LaterIdle == SearchIdle /\ BookingIdle /\ SimpleAgentIdle /\ DbIdle

Init ==
    /\ client \in {"mock", "google"}
    /\ credentials \in (IF client = "mock" THEN {FALSE} ELSE BOOLEAN)
    /\ events = {}
    /\ event_counter = 1
    /\ today = StartDay
    /\ last = NoLast
    /\ llm \in BOOLEAN
    /\ task = NoTask
    /\ SlotsIdle
    /\ ParserIdle
    /\ LaterIdle

\* An adapter call as the record of an operation keeps it: its name, marked
\* when the adapter answered with a failure
Called(name, success) == IF success THEN name ELSE name \o "_failed"

\* create_appointment(request) for a request given as a dict
create_appointment(req) ==
    LET v == validate_appointment(req, today) IN
    IF ~v.valid
    THEN /\ last' = Outcome("create", req, 0, FALSE,
                            IF v.rule = "raise" THEN "exception" ELSE v.rule,
                            v.field, <<>>, <<>>)
         /\ UNCHANGED <<events, event_counter>>
    ELSE \E existing \in get_events(events, v.start_datetime,
                                    PlusMinutes(v.start_datetime, DurationOf(req))) :
           LET availability ==
                   check_slot_availability(req.date, DurationOf(req), existing)
           IN  IF ~availability.available
               THEN /\ last' = Outcome("create", req, 0, FALSE, "conflict", "",
                                       availability.suggestions,
                                       <<Called("get_events", existing.success)>>)
                    /\ UNCHANGED <<events, event_counter>>
               ELSE \E outcome \in create_event_outcomes :
                      IF outcome = "ok"
                      THEN /\ events' = events \cup
                                  {[id    |-> event_counter,
                                    start |-> IsoText(v.start_datetime, ""),
                                    end   |-> IsoText(v.end_datetime, "")]}
                           /\ event_counter' = event_counter + 1
                           /\ last' = Outcome("create", req, event_counter, TRUE,
                                              "created", "", <<>>,
                                              <<Called("get_events", existing.success),
                                                "create_event">>)
                      ELSE /\ last' = Outcome("create", req, 0, FALSE,
                                              "adapter_error", "", <<>>,
                                              <<Called("get_events", existing.success),
                                                "create_event">>)
                           /\ UNCHANGED <<events, event_counter>>

CreateAppointment ==
    /\ event_counter <= MaxEventId
    /\ \E req \in Requests : create_appointment(req)
    /\ task' = NoTask
    /\ UNCHANGED <<client, credentials, today, llm, slotVars, parserVars, laterVars>>

\* _extract_appointment_info(request) when the LLM's answer is not the JSON
\* asked for: the fallback request
extract_appointment_info_fallback ==
    Request("Cliente", "corte_simples", strftime_date(today + 1),
            TimeText(14, 0), <<DefaultDuration>>)

\* self.services.get(service_key, {}).get("duration", 60)
CatalogDuration(service) ==
    IF service \in DOMAIN services THEN services[service] ELSE DefaultDuration

\* The fields an LLM answer may carry for a request given as text
LlmRequests ==
    { Request(c, s, DateText(2024, 8, 5), TimeText(9, 0), <<>>) :
        c \in {"Ana"}, s \in {"corte_simples", "sobrancelha", "manicure"} }

\* _extract_appointment_info(request): with an LLM, the fields of its JSON
\* answer and the duration of the service named; the fallback request
\* without an LLM or when the answer is no JSON
extract_appointment_info ==
    IF llm
    THEN { [r EXCEPT !.duration = <<CatalogDuration(r.service)>>] : r \in LlmRequests }
             \cup {extract_appointment_info_fallback}
    ELSE {extract_appointment_info_fallback}

\* create_appointment(request) for a request given as text
CreateAppointmentFromText ==
    /\ event_counter <= MaxEventId
    /\ \E req \in extract_appointment_info : create_appointment(req)
    /\ task' = NoTask
    /\ UNCHANGED <<client, credentials, today, llm, slotVars, parserVars, laterVars>>

\* cancel_appointment moving the event half an hour later instead of
\* deleting it
cancel_appointment_Reschedule(appointment_id) ==
    /\ events' = { IF e.id = appointment_id
                   THEN [e EXCEPT !.start.wall = PlusMinutes(e.start.wall, 30),
                                  !.end.wall = PlusMinutes(e.end.wall, 30)]
                   ELSE e : e \in events }
    /\ last' = Outcome("cancel", NoRequest, appointment_id, TRUE, "ok", "", <<>>,
                       <<"delete_event">>)

\* cancel_appointment(appointment_id)
cancel_appointment(appointment_id) ==
    \E outcome \in delete_event_outcomes(events, appointment_id) :
        /\ events' = IF outcome = "ok"
                     THEN {e \in events : e.id # appointment_id} ELSE events
        /\ last' = Outcome("cancel", NoRequest, appointment_id,
                           outcome \in {"ok", "gone"}, outcome, "", <<>>,
                           <<"delete_event">>)

CancelAppointment ==
    /\ \E appointment_id \in 1..(MaxEventId + 1) :
           cancel_appointment(appointment_id)
    /\ task' = NoTask
    /\ UNCHANGED <<client, credentials, event_counter, today, llm, slotVars,
                   parserVars, laterVars>>

-----------------------------------------------------------------------------
(* Properties of Spec                                                      *)

StoredIds(stored) == {e.id : e \in stored}

RequestDay == strptime_date(last.request.date)

AllFieldsPresent ==
    /\ last.request.customer_name # ""
    /\ last.request.service # ""
    /\ last.request.date.fmt # "empty"
    /\ last.request.time.fmt # "empty"

ServiceKnown == last.request.service \in DOMAIN services

DateAcceptable == RequestDay # ValueError /\ RequestDay >= last.now_date

\* Sunday is the weekday business_hours marks closed
ClosedDay == DateAcceptable /\ Weekday(RequestDay) = 6

\* C1: a create_appointment request with its required fields present, a
\* catalog service and a date of today or later, on a closed weekday,
\* returns a failure result and adds no event to the calendar.
C1_ClosedDayRefused ==
    (last.op = "create" /\ AllFieldsPresent /\ ServiceKnown /\ ClosedDay) =>
        (~last.success /\ events = last.before)

\* C1 witness: a request valid in every other respect, for a closed day,
\* was refused as closed.
C1_Witness ==
    /\ last.op = "create"
    /\ AllFieldsPresent /\ ServiceKnown /\ ClosedDay
    /\ ValidTime(last.request.time)
    /\ last.kind = "closed"

AbsentCancel ==
    last.op = "cancel" /\ last.event_id \notin StoredIds(last.before)

\* C4, for every adapter: cancelling an identifier that is not in the
\* calendar returns success and leaves the stored events unchanged.
C4_AbsentCancelSucceeds ==
    AbsentCancel => (last.success /\ events = last.before)

\* C4, by adapter: cancelling an identifier that is not in the calendar
\* leaves the stored events unchanged; it returns success with the mock
\* adapter, and with the Google adapter exactly when delete_event reports
\* the event gone (HTTP 410).  After a successful cancel the identifier is
\* not stored, and with the mock adapter a cancel that repeats the
\* previous cancel succeeds and changes nothing.
C4_AbsentCancelByAdapter ==
    /\ AbsentCancel =>
           /\ events = last.before
           /\ client = "mock" => last.success
           /\ last.success <=> last.kind = "gone"
    /\ (last.op = "cancel" /\ last.success) =>
           last.event_id \notin StoredIds(events)
    /\ (last.op = "cancel" /\ last.again /\ client = "mock") =>
           (last.success /\ events = last.before)

\* C4 witness: with the mock adapter, an identifier the calendar once
\* issued was cancelled twice in a row, and the second cancel succeeded.
C4_Witness ==
    /\ client = "mock"
    /\ last.op = "cancel" /\ last.again
    /\ last.event_id < event_counter
    /\ AbsentCancel /\ last.success

RequestStart ==
    DateTime(RequestDay, last.request.time.h, last.request.time.mi)

RequestEnd == PlusMinutes(RequestStart, DurationOf(last.request))

Overlapping(stored) ==
    {e \in stored : /\ Before(e.start.wall, RequestEnd)
                    /\ Before(RequestStart, e.end.wall)}

\* C5, for the mock adapter: a create_appointment that reaches
\* the availability check is refused as unavailable exactly when the
\* calendar holds an event that overlaps [start, start+duration).
C5_UnavailableIffOverlap ==
    (client = "mock" /\ last.op = "create"
        /\ last.kind \in {"conflict", "created", "adapter_error"}) =>
        (last.kind = "conflict" <=> Overlapping(last.before) # {})

\* C6: create_appointment answers with the first rule the request breaks,
\* in the order required fields (customer_name, service, date, time),
\* service in the catalog, date parseable and not before today, weekday
\* not closed, also when the request breaks later rules too.
C6_FirstFailingRule ==
    last.op = "create" =>
        LET r == last.request
            noName    == r.customer_name = ""
            noService == r.service = ""
            noDate    == r.date.fmt = "empty"
            noTime    == r.time.fmt = "empty"
        IN  /\ noName => (last.kind = "required" /\ last.field = "customer_name")
            /\ (~noName /\ noService) =>
                   (last.kind = "required" /\ last.field = "service")
            /\ (~noName /\ ~noService /\ noDate) =>
                   (last.kind = "required" /\ last.field = "date")
            /\ (~noName /\ ~noService /\ ~noDate /\ noTime) =>
                   (last.kind = "required" /\ last.field = "time")
            /\ (AllFieldsPresent /\ ~ServiceKnown) => last.kind = "service"
            /\ (AllFieldsPresent /\ ServiceKnown /\ RequestDay = ValueError) =>
                   last.kind = "date_format"
            /\ (AllFieldsPresent /\ ServiceKnown /\ RequestDay # ValueError
                    /\ RequestDay < last.now_date) => last.kind = "past"
            /\ (AllFieldsPresent /\ ServiceKnown /\ ClosedDay) =>
                   last.kind = "closed"
            /\ (AllFieldsPresent /\ ServiceKnown /\ DateAcceptable /\ ~ClosedDay) =>
                   last.kind \notin {"required", "service", "date_format",
                                     "past", "closed"}
            /\ ~last.success => events = last.before

\* C6 witness: a request with an unknown service, a past date and a
\* malformed time was refused for its service.
C6_Witness ==
    /\ last.op = "create"
    /\ AllFieldsPresent /\ ~ServiceKnown
    /\ RequestDay # ValueError /\ RequestDay < last.now_date
    /\ ~ValidTime(last.request.time)
    /\ last.kind = "service"

-----------------------------------------------------------------------------
(* Texts and the regular expressions of TimeParser                         *)

DigitChars == <<"0", "1", "2", "3", "4", "5", "6", "7", "8", "9">>

UpperChars ==
    << "A", "B", "C", "D", "E", "F", "G", "H", "I", "J",
       "K", "L", "M", "N", "O", "P", "Q", "R", "S", "T",
       "U", "V", "W", "X", "Y", "Z", "~A", "'A", ",C", "^A", "'I" >>

LowerChars ==
    << "a", "b", "c", "d", "e", "f", "g", "h", "i", "j",
       "k", "l", "m", "n", "o", "p", "q", "r", "s", "t",
       "u", "v", "w", "x", "y", "z", "~a", "'a", ",c", "^a", "'i" >>

\* str.lower() of one character
LowerChar(c) ==
    IF \E i \in 1..Len(UpperChars) : UpperChars[i] = c
    THEN LowerChars[CHOOSE i \in 1..Len(UpperChars) : UpperChars[i] = c]
    ELSE c

Lower(s) == [i \in 1..Len(s) |-> LowerChar(s[i])]

\* \s, and the character class [/\-]
IsSpace(c) == c = " "
DateSeparators == {"/", "-"}
IsDateSeparator(c) == c \in DateSeparators

RECURSIVE Strip(_)
\* str.strip()
Strip(s) ==
    IF s = <<>> THEN s
    ELSE IF IsSpace(Head(s)) THEN Strip(Tail(s))
    ELSE IF IsSpace(s[Len(s)]) THEN Strip(SubSeq(s, 1, Len(s) - 1))
    ELSE s

\* The character at a position; "" past the end of the text
CharAt(s, i) == IF i \in 1..Len(s) THEN s[i] ELSE ""

IsDigit(c) == \E i \in 1..Len(DigitChars) : DigitChars[i] = c

DigitValue(c) == (CHOOSE i \in 1..Len(DigitChars) : DigitChars[i] = c) - 1

\* \d{n} at a position
HasDigits(s, i, n) == \A k \in 0..(n - 1) : IsDigit(CharAt(s, i + k))

RECURSIVE IntOf(_, _, _)
\* int() of the n digits at a position
IntOf(s, i, n) ==
    IF n = 0 THEN 0 ELSE IntOf(s, i, n - 1) * 10 + DigitValue(s[i + n - 1])

\* A literal at a position
StartsWith(s, i, w) == \A k \in 1..Len(w) : CharAt(s, i + k - 1) = w[k]

\* w in s
Contains(s, w) == \E i \in 1..Len(s) : StartsWith(s, i, w)

\* A match object: its groups and the position after it
NoMatch == [ok |-> FALSE, g |-> <<>>, end |-> 0]
Match(g, end) == [ok |-> TRUE, g |-> g, end |-> end]

Min(S) == CHOOSE x \in S : \A y \in S : x <= y

\* The positions of a text at which re.search tries a pattern
Positions(s) == 1..Len(s)

\* re.search, given the pattern's match at every position: the match at
\* the leftmost position that has one
Search(matches) ==
    LET hits == {i \in DOMAIN matches : matches[i].ok}
    IN  IF hits = {} THEN NoMatch ELSE matches[Min(hits)]

\* (\d{1,2}) followed by one character of a class: the greedy length, 0
\* when neither length fits
DigitRun(s, i, class) ==
    IF HasDigits(s, i, 2) /\ CharAt(s, i + 2) \in class THEN 2
    ELSE IF HasDigits(s, i, 1) /\ CharAt(s, i + 1) \in class THEN 1
    ELSE 0

\* time_24h: (\d{1,2}):(\d{2})
time_24h_at(s, i) ==
    LET n == DigitRun(s, i, {":"})
    IN  IF n > 0 /\ HasDigits(s, i + n + 1, 2)
        THEN Match(<<IntOf(s, i, n), IntOf(s, i + n + 1, 2)>>, i + n + 3)
        ELSE NoMatch

RECURSIVE SkipSpaces(_, _)
\* \s*
SkipSpaces(s, i) == IF IsSpace(CharAt(s, i)) THEN SkipSpaces(s, i + 1) ELSE i

PeriodSuffixes == <<<<"a", "m">>, <<"p", "m">>, <<"h">>>>

\* time_12h: (\d{1,2}):(\d{2})\s*(am|pm|h); the third group is the
\* suffix's place in PeriodSuffixes
time_12h_at(s, i) ==
    LET m == time_24h_at(s, i)
        j == SkipSpaces(s, m.end)
        k == {x \in 1..Len(PeriodSuffixes) : StartsWith(s, j, PeriodSuffixes[x])}
    IN  IF m.ok /\ k # {}
        THEN Match(m.g \o <<Min(k)>>, j + Len(PeriodSuffixes[Min(k)]))
        ELSE NoMatch

\* date_br: (\d{1,2})[/\-](\d{1,2})[/\-](\d{4})
date_br_at(s, i) ==
    LET n1 == DigitRun(s, i, DateSeparators)
        j  == i + n1 + 1
        n2 == DigitRun(s, j, DateSeparators)
        k  == j + n2 + 1
    IN  IF n1 > 0 /\ n2 > 0 /\ HasDigits(s, k, 4)
        THEN Match(<<IntOf(s, i, n1), IntOf(s, j, n2), IntOf(s, k, 4)>>, k + 4)
        ELSE NoMatch

\* date_iso: (\d{4})[/\-](\d{1,2})[/\-](\d{1,2})
date_iso_at(s, i) ==
    LET j  == i + 5
        n2 == DigitRun(s, j, DateSeparators)
        k  == j + n2 + 1
        n3 == IF HasDigits(s, k, 2) THEN 2 ELSE IF HasDigits(s, k, 1) THEN 1 ELSE 0
    IN  IF HasDigits(s, i, 4) /\ IsDateSeparator(CharAt(s, i + 4))
           /\ n2 > 0 /\ n3 > 0
        THEN Match(<<IntOf(s, i, 4), IntOf(s, j, n2), IntOf(s, k, n3)>>, k + n3)
        ELSE NoMatch

\* (\d{1,2})[/\-](\d{1,2})(?![/\-]\d{4}): the second group gives back a
\* digit when the lookahead refuses its greedy length
date_only_at(s, i) ==
    LET n1 == DigitRun(s, i, DateSeparators)
        j  == i + n1 + 1
        Allowed(n) ==
            /\ HasDigits(s, j, n)
            /\ ~(IsDateSeparator(CharAt(s, j + n)) /\ HasDigits(s, j + n + 1, 4))
        n2 == IF Allowed(2) THEN 2 ELSE IF Allowed(1) THEN 1 ELSE 0
    IN  IF n1 > 0 /\ n2 > 0
        THEN Match(<<IntOf(s, i, n1), IntOf(s, j, n2)>>, j + n2)
        ELSE NoMatch

\* relative_day: (hoje|amanhã|amanha|depois de amanhã); the group is the
\* word's place in RelativeWords
RelativeWords ==
    << <<"h", "o", "j", "e">>,
       <<"a", "m", "a", "n", "h", "~a">>,
       <<"a", "m", "a", "n", "h", "a">>,
       <<"d", "e", "p", "o", "i", "s", " ", "d", "e", " ",
         "a", "m", "a", "n", "h", "~a">> >>

relative_day_at(s, i) ==
    LET k == {x \in 1..Len(RelativeWords) : StartsWith(s, i, RelativeWords[x])}
    IN  IF k = {} THEN NoMatch
        ELSE Match(<<Min(k)>>, i + Len(RelativeWords[Min(k)]))

\* The names of the weekday pattern, and weekdays_pt of each
WeekdayWords ==
    << <<"s", "e", "g", "u", "n", "d", "a">>,
       <<"t", "e", "r", ",c", "a">>,
       <<"t", "e", "r", "c", "a">>,
       <<"q", "u", "a", "r", "t", "a">>,
       <<"q", "u", "i", "n", "t", "a">>,
       <<"s", "e", "x", "t", "a">>,
       <<"s", "'a", "b", "a", "d", "o">>,
       <<"s", "a", "b", "a", "d", "o">>,
       <<"d", "o", "m", "i", "n", "g", "o">> >>

weekdays_pt == <<0, 1, 1, 2, 3, 4, 5, 5, 6>>

\* The literal the weekday pattern requires after the name: "feir" of feira?
FEIR == <<"f", "e", "i", "r">>

\* weekday: (segunda|...|domingo)[\-\s]?feira?; the group is the name's
\* place in WeekdayWords
weekday_at(s, i) ==
    LET Rest(j) ==
            IF (CharAt(s, j) = "-" \/ IsSpace(CharAt(s, j)))
                   /\ StartsWith(s, j + 1, FEIR)
            THEN j + 1 + Len(FEIR)
            ELSE IF StartsWith(s, j, FEIR) THEN j + Len(FEIR) ELSE 0
        k == {x \in 1..Len(WeekdayWords) :
                 /\ StartsWith(s, i, WeekdayWords[x])
                 /\ Rest(i + Len(WeekdayWords[x])) > 0}
    IN  IF k = {} THEN NoMatch
        ELSE LET e == Rest(i + Len(WeekdayWords[Min(k)]))
             IN  Match(<<Min(k)>>, IF CharAt(s, e) = "a" THEN e + 1 ELSE e)

\* self.time_periods, in the order the dict holds its keys
time_periods ==
    << [period |-> <<"m", "a", "n", "h", "~a">>, time |-> <<9, 0>>],
       [period |-> <<"m", "a", "n", "h", "a">>,     time |-> <<9, 0>>],
       [period |-> <<"t", "a", "r", "d", "e">>,     time |-> <<14, 0>>],
       [period |-> <<"n", "o", "i", "t", "e">>,     time |-> <<19, 0>>],
       [period |-> <<"m", "e", "i", "o", "-", "d", "i", "a">>,  time |-> <<12, 0>>],
       [period |-> <<"m", "e", "i", "o", " ", "d", "i", "a">>, time |-> <<12, 0>>] >>

-----------------------------------------------------------------------------
(* TimeParser: the parsing strategies                                      *)

\* None where a datetime is expected; no date has ordinal 0
NoMoment == [date |-> 0, sec |-> 0]

\* A datetime with seconds, as a reference moment or a clock reading has
Moment(y, m, d, hour, minute, second) ==
    [date |-> Ordinal(y, m, d), sec |-> hour * 3600 + minute * 60 + second]

\* a or b
Or(a, b) == IF a # NoMoment THEN a ELSE b

\* 0 <= hour <= 23 and 0 <= minute <= 59
ValidClock(hour, minute) == hour \in 0..23 /\ minute \in 0..59

\* datetime(year, month, day, hour, minute); None for a ValueError
datetime(year, month, day, hour, minute) ==
    IF ValidDate(year, month, day) /\ ValidClock(hour, minute)
    THEN DateTime(Ordinal(year, month, day), hour, minute)
    ELSE NoMoment

\* hour, minute = 9, 0
DefaultTime == <<9, 0>>

\* if 0 <= hour <= 23 and 0 <= minute <= 59: return (hour, minute);
\* <<>> stands for no return
CheckedTime(hour, minute) ==
    IF ValidClock(hour, minute) THEN <<hour, minute>> ELSE <<>>

\* a if a else b, on times
FirstTime(a, b) == IF a # <<>> THEN a ELSE b

\* The 24-hour attempt of _extract_time on its match
Time24h(m) == IF m.ok THEN CheckedTime(m.g[1], m.g[2]) ELSE <<>>

\* The hour of a 12-hour time with its suffix
Hour12(hour, suffix) ==
    IF suffix = <<"p", "m">> /\ hour # 12 THEN hour + 12
    ELSE IF suffix = <<"a", "m">> /\ hour = 12 THEN 0
    ELSE hour

\* The 12-hour attempt of _extract_time on its match
Time12h(m) ==
    IF m.ok
    THEN CheckedTime(Hour12(m.g[1], PeriodSuffixes[m.g[3]]), m.g[2])
    ELSE <<>>

\* for period, time in self.time_periods.items(): if period in text
PeriodTime(text) ==
    LET named == SelectSeq(time_periods, LAMBDA p : Contains(text, p.period))
    IN  IF named # <<>> THEN Head(named).time ELSE <<>>

\* _extract_time: <<hour, minute>>, or <<>> for None
extract_time(text) ==
    FirstTime(
        Time24h(Search([i \in Positions(text) |-> time_24h_at(text, i)])),
        FirstTime(
            Time12h(Search([i \in Positions(text) |-> time_12h_at(text, i)])),
            PeriodTime(text)))

\* time_part if time_part else (9, 0)
TimeOrDefault(text) == FirstTime(extract_time(text), DefaultTime)

\* datetime.combine(date, time().replace(hour=hour, minute=minute))
Combine(ord, hm) == DateTime(ord, hm[1], hm[2])

\* datetime(year, month, day, hour, minute) with the time as a pair
DateAt(year, month, day, hm) == datetime(year, month, day, hm[1], hm[2])

\* The date of an explicit match, the DD/MM/YYYY form read as MM/DD/YYYY
ExplicitDate_MonthFirst(br, iso, hm) ==
    IF br.ok THEN DateAt(br.g[3], br.g[1], br.g[2], hm)
    ELSE IF iso.ok THEN DateAt(iso.g[1], iso.g[2], iso.g[3], hm)
    ELSE NoMoment

\* The date of an explicit match at the time found, 9:00 when none is
ExplicitDate(br, iso, hm) ==
    IF br.ok THEN DateAt(br.g[3], br.g[2], br.g[1], hm)
    ELSE IF iso.ok THEN DateAt(iso.g[1], iso.g[2], iso.g[3], hm)
    ELSE NoMoment

\* The groups of the time_24h match, or (9, 0)
MatchedTime(tm) == IF tm.ok THEN tm.g ELSE DefaultTime

\* _parse_explicit_datetime
parse_explicit_datetime(text, base_date) ==
    ExplicitDate(
        Search([i \in Positions(text) |-> date_br_at(text, i)]),
        Search([i \in Positions(text) |-> date_iso_at(text, i)]),
        MatchedTime(Search([i \in Positions(text) |-> time_24h_at(text, i)])))

\* The days each word of RelativeWords adds to the base date
RelativeDays == <<0, 1, 1, 2>>

\* The relative day of a match, every word read as today
RelativeDate_Today(rel, base_date, hm) ==
    IF ~rel.ok THEN NoMoment ELSE Combine(base_date.date, hm)

\* The relative day of a match at a time
RelativeDate(rel, base_date, hm) ==
    IF ~rel.ok THEN NoMoment
    ELSE Combine(PlusDays(base_date, RelativeDays[rel.g[1]]).date, hm)

\* _parse_relative_datetime
parse_relative_datetime(text, base_date) ==
    RelativeDate(Search([i \in Positions(text) |-> relative_day_at(text, i)]),
                 base_date, TimeOrDefault(text))

\* days_ahead: the days from one weekday to the next occurrence of another
DaysAhead(target_weekday, current_weekday) ==
    IF target_weekday - current_weekday <= 0
    THEN target_weekday - current_weekday + 7
    ELSE target_weekday - current_weekday

\* The next occurrence of a matched weekday at a time
WeekdayDate(wd, base_date, hm) ==
    IF ~wd.ok THEN NoMoment
    ELSE Combine(PlusDays(base_date,
                          DaysAhead(weekdays_pt[wd.g[1]],
                                    Weekday(base_date.date))).date, hm)

\* _parse_weekday_time
parse_weekday_time(text, base_date) ==
    WeekdayDate(Search([i \in Positions(text) |-> weekday_at(text, i)]),
                base_date, TimeOrDefault(text))

\* The day and month of a match in the base year, or in the next year
\* when that date is not after the base date
DayMonthDate(day, month, year, base_date, hm) ==
    IF ~ValidDate(year, month, day) THEN NoMoment
    ELSE IF Ordinal(year, month, day) <= base_date.date
    THEN DateAt(year + 1, month, day, hm)
    ELSE DateAt(year, month, day, hm)

DateOnly(m, base_date, hm) ==
    IF ~m.ok THEN NoMoment
    ELSE DayMonthDate(m.g[1], m.g[2], YearOf(base_date.date), base_date, hm)

\* _parse_date_only
parse_date_only(text, base_date) ==
    DateOnly(Search([i \in Positions(text) |-> date_only_at(text, i)]),
             base_date, TimeOrDefault(text))

\* if target_datetime < base_date: target_datetime += timedelta(days=1)
NextOccurrence_Strict(target_datetime, base_date) ==
    IF Before(target_datetime, base_date)
    THEN PlusDays(target_datetime, 1)
    ELSE target_datetime

\* if target_datetime <= base_date: target_datetime += timedelta(days=1)
NextOccurrence(target_datetime, base_date) ==
    IF NotAfter(target_datetime, base_date)
    THEN PlusDays(target_datetime, 1)
    ELSE target_datetime

TimeOnly(hm, base_date) ==
    IF hm = <<>> THEN NoMoment
    ELSE NextOccurrence(Combine(base_date.date, hm), base_date)

\* _parse_time_only
parse_time_only(text, base_date) == TimeOnly(extract_time(text), base_date)

\* The chain of strategies on the normalised text
Strategies(t, base) ==
    Or(parse_explicit_datetime(t, base),
    Or(parse_relative_datetime(t, base),
    Or(parse_weekday_time(t, base),
    Or(parse_date_only(t, base),
       parse_time_only(t, base)))))

\* parse_datetime reading the clock even when a base date is passed
parse_datetime_ClockOnly(text, base_date, now) ==
    Strategies(Strip(Lower(text)), now)

\* parse_datetime; base_date is NoMoment when the caller passes None, and
\* now is what datetime.now() would return
parse_datetime(text, base_date, now) ==
    Strategies(Strip(Lower(text)), IF base_date = NoMoment THEN now ELSE base_date)

-----------------------------------------------------------------------------
(* Spec: run(task), the dispatch of a task given as text                   *)

\* any(word in task_lower for word in words)
HasAny(task_lower, words) ==
    \E i \in 1..Len(words) : Contains(task_lower, words[i])

\* The keyword groups of _simple_task_handler (schedule, list, cancel,
\* availability) and of _simple_intent_classification (schedule, list_intent,
\* cancel, modify, availability_intent)
Keywords ==
    [schedule     |-> << <<"a", "g", "e", "n", "d", "a", "r">>, <<"m", "a", "r", "c", "a", "r">>, <<"q", "u", "e", "r", "o">> >>,
     list         |-> << <<"l", "i", "s", "t", "a", "r">>, <<"m", "o", "s", "t", "r", "a", "r">> >>,
     cancel       |-> << <<"c", "a", "n", "c", "e", "l", "a", "r">>, <<"d", "e", "s", "m", "a", "r", "c", "a", "r">> >>,
     modify       |-> << <<"m", "o", "d", "i", "f", "i", "c", "a", "r">>, <<"a", "l", "t", "e", "r", "a", "r">>, <<"m", "u", "d", "a", "r">> >>,
     availability |-> << <<"d", "i", "s", "p", "o", "n", "i", "b", "i", "l", "i", "d",
        "a", "d", "e">>, <<"h", "o", "r", "'a", "r", "i", "o", "s">> >>,
     list_intent  |-> << <<"l", "i", "s", "t", "a", "r">>, <<"m", "o", "s", "t", "r", "a", "r">>, <<"v", "e", "r", " ", "a", "g", "e", "n", "d", "a", "m", "e",
        "n", "t", "o", "s">> >>,
     availability_intent |->
         << <<"d", "i", "s", "p", "o", "n", "i", "b", "i", "l", "i", "d",
        "a", "d", "e">>, <<"h", "o", "r", "'a", "r", "i", "o", "s", " ", "l", "i", "v",
        "r", "e", "s">>, <<"d", "i", "s", "p", "o", "n", "'i", "v", "e", "l">> >>]

\* _simple_task_handler: the operation called for a task, without an LLM
simple_task_handler(task_lower) ==
    IF HasAny(task_lower, Keywords.schedule) THEN "create_appointment"
    ELSE IF HasAny(task_lower, Keywords.list) THEN "list_appointments"
    ELSE IF HasAny(task_lower, Keywords.cancel) THEN "cancel_appointment"
    ELSE IF HasAny(task_lower, Keywords.availability) THEN "check_availability"
    ELSE "create_appointment"

\* _simple_intent_classification
simple_intent_classification(task_lower) ==
    IF HasAny(task_lower, Keywords.schedule) THEN "agendar"
    ELSE IF HasAny(task_lower, Keywords.list_intent) THEN "listar"
    ELSE IF HasAny(task_lower, Keywords.cancel) THEN "cancelar"
    ELSE IF HasAny(task_lower, Keywords.modify) THEN "modificar"
    ELSE IF HasAny(task_lower, Keywords.availability_intent) THEN "disponibilidade"
    ELSE "agendar"

\* _analyze_intent: the intent of the LLM's JSON answer ("outra" is any
\* other text, "not_an_object" a JSON answer that is no object), or the
\* keyword classification when the answer fails or is no JSON
analyze_intent(task_lower) ==
    {"agendar", "consultar", "listar", "modificar", "cancelar",
     "disponibilidade", "outra", "not_an_object"}
        \cup {simple_intent_classification(task_lower)}

\* _execute_intent: the operation called for an intent
execute_intent(intent) ==
    CASE intent = "agendar"         -> "create_appointment"
      [] intent = "consultar"       -> "check_availability"
      [] intent = "listar"          -> "list_appointments"
      [] intent = "modificar"       -> "modify_appointment_placeholder"
      [] intent = "cancelar"        -> "cancel_appointment"
      [] intent = "disponibilidade" -> "get_available_slots"
      [] intent = "not_an_object"   -> "AttributeError"
      [] OTHER                      -> "create_appointment"

\* The tasks given to run: one keyword, no keyword, keywords of two groups,
\* a capital letter
Tasks ==
    { <<"l", "i", "s", "t", "a", "r">>, <<"c", "a", "n", "c", "e", "l", "a", "r">>, <<"A", "l", "t", "e", "r", "a", "r", " ", "h", "o", "r", "a",
        "r", "i", "o">>,
      <<"m", "o", "d", "i", "f", "i", "c", "a", "r">>, <<"o", "i">>, <<"q", "u", "e", "r", "o", " ", "c", "a", "n", "c", "e", "l",
        "a", "r">>,
      <<"m", "u", "d", "a", "r", " ", "d", "i", "s", "p", "o", "n",
        "i", "b", "i", "l", "i", "d", "a", "d", "e">> }

\* Whether the result an operation returns carries no "message": the
\* success results of list_appointments, check_availability and
\* get_available_slots, and no result of run's except branch
HasMessage_SilentException(op, kind) ==
    /\ ~(op \in {"list_appointments", "check_availability", "get_available_slots"}
            /\ kind \in {"listed", "closed", "slots"})
    /\ op # "run"

\* Whether the result an operation returns carries a "message": every
\* result does but the success results of list_appointments,
\* check_availability and get_available_slots
HasMessage(op, kind) ==
    ~(op \in {"list_appointments", "check_availability", "get_available_slots"}
        /\ kind \in {"listed", "closed", "slots"})

\* An operation that reads the calendar and leaves it as it is: the result
\* it computes from the adapter's answer to get_events
ReadCalendar(op, existing) ==
    LET result ==
            CASE op = "check_availability" ->
                     check_availability(EmptyText, today, existing)
              [] op = "get_available_slots" ->
                     get_available_slots(EmptyText, "", today, existing)
              [] OTHER ->
                     [NoAnswer EXCEPT !.success = existing.success,
                                      !.kind = IF existing.success THEN "listed"
                                               ELSE "adapter_error"]
    IN  /\ last' = Outcome(op, NoRequest, 0, result.success, result.kind, "",
                           <<>>, <<"get_events">>)
        /\ UNCHANGED <<events, event_counter>>

\* run(task, **kwargs): the operation chosen is called with the keyword
\* arguments given, appointment_id or none (0); cancel_appointment without
\* an appointment_id raises TypeError, which run answers as a failure
run(text, op) ==
    /\ task' = [text |-> text, operation |-> op]
    /\ CASE op = "create_appointment" ->
                /\ event_counter <= MaxEventId
                /\ \E req \in extract_appointment_info : create_appointment(req)
         [] op = "cancel_appointment" ->
                \E appointment_id \in 0..1 :
                    IF appointment_id = 0
                    THEN /\ last' = Outcome("run", NoRequest, 0, FALSE,
                                            "exception", "", <<>>, <<>>)
                         /\ UNCHANGED <<events, event_counter>>
                    ELSE /\ cancel_appointment(appointment_id)
                         /\ UNCHANGED event_counter
         [] op = "AttributeError" ->
                /\ last' = Outcome("run", NoRequest, 0, FALSE, "exception", "",
                                   <<>>, <<>>)
                /\ UNCHANGED <<events, event_counter>>
         [] op = "modify_appointment_placeholder" ->
                /\ last' = Outcome("modify", NoRequest, 0, FALSE,
                                   "not_implemented", "", <<>>, <<>>)
                /\ UNCHANGED <<events, event_counter>>
         [] OTHER ->
                \E existing \in get_events(events, DateTime(today, 0, 0),
                                           DateTime(today + 7, 0, 0)) :
                    ReadCalendar(op, existing)

Run ==
    /\ \E text \in Tasks :
           \E op \in (IF llm
                       THEN { execute_intent(intent) :
                                intent \in analyze_intent(Lower(text)) }
                       ELSE {simple_task_handler(Lower(text))}) :
               run(text, op)
    /\ UNCHANGED <<client, credentials, today, llm, slotVars, parserVars, laterVars>>

Next ==
    \/ CreateAppointment
    \/ CreateAppointmentFromText
    \/ CancelAppointment

Spec == Init /\ [][Next]_vars

\* The agent driven through run(task) alone
SpecRun == Init /\ [][Run]_vars

-----------------------------------------------------------------------------
(* SpecSlots: the available-slots operations on every bounded input        *)

\* The most events one get_events answer lists
MaxListed == 3

Mon == Ordinal(2024, 8, 5)
Sat == Ordinal(2024, 8, 10)

Event(ord, h1, m1, h2, m2, tz) ==
    [start |-> IsoText(DateTime(ord, h1, m1), tz),
     end   |-> IsoText(DateTime(ord, h2, m2), tz)]

\* Events a calendar may list: inside and across slot boundaries, at the
\* edges of the business day, with an offset, on another day, all-day.
ListedEvents ==
    { Event(Mon, 9, 15, 9, 45, ""),
      Event(Mon, 10, 0, 11, 0, ""),
      Event(Mon, 9, 0, 9, 30, "Z"),
      Event(Mon, 17, 30, 18, 30, "-03:00"),
      Event(Mon, 13, 40, 14, 0, ""),
      Event(Sat, 8, 30, 9, 0, ""),
      [start |-> NoDateTime, end |-> NoDateTime] }

SlotDates ==
    { DateText(2024, 8, 5), DateText(2024, 8, 4), DateText(2024, 8, 9),
      DateText(2024, 8, 10), DateText(2024, 2, 30), OtherText, EmptyText }

SlotServices == {"", "corte_simples", "corte_completo", "sobrancelha", "manicure"}

\* What get_events may answer: a list of events, or a failure
Responses ==
    { [success |-> TRUE, events |-> es] :
        es \in {x \in SUBSET ListedEvents : Cardinality(x) <= MaxListed} }
    \cup { [success |-> FALSE, events |-> {}] }

InitSlots ==
    /\ AgentIdle
    /\ ParserIdle
    /\ LaterIdle
    /\ query \in [date : SlotDates, service : SlotServices,
                  now_date : {Ordinal(2024, 8, 4), Ordinal(2024, 8, 9)},
                  response : Responses]
    /\ answer = NoAnswer

DoCheckAvailability ==
    /\ answer.op = "none"
    /\ answer' = check_availability(query.date, query.now_date, query.response)
    /\ UNCHANGED <<query, agentVars, parserVars, laterVars>>

DoGetAvailableSlots ==
    /\ answer.op = "none"
    /\ answer' = get_available_slots(query.date, query.service, query.now_date,
                                     query.response)
    /\ UNCHANGED <<query, agentVars, parserVars, laterVars>>

NextSlots == DoCheckAvailability \/ DoGetAvailableSlots

SpecSlots == InitSlots /\ [][NextSlots]_vars

\* The day a query is about: its date, or tomorrow when none was given
QueryDay ==
    strptime_date(IF query.date.fmt = "empty"
                  THEN strftime_date(query.now_date + 1) ELSE query.date)

SlotStart(slot) == DateTime(QueryDay, slot[1], slot[2])

ListedWithTimes == {e \in query.response.events : e.start.has /\ e.end.has}

RangeOf(seq) == {seq[i] : i \in 1..Len(seq)}

\* C2: no slot whose start lies inside a listed event's half-open interval
\* [event_start, event_end) is in the list the available-slots operations
\* return (check_availability and get_available_slots).
C2_NoSlotStartsInsideEvent ==
    answer.kind = "slots" =>
        \A slot \in RangeOf(answer.slots) : \A e \in ListedWithTimes :
            ~(/\ NotAfter(e.start.wall, SlotStart(slot))
              /\ Before(SlotStart(slot), e.end.wall))

\* C2 witness: slots were returned for a day on which a listed event
\* covers the start of a slot of the grid, a slot that starts exactly at
\* the event's start among them.
C2_Witness ==
    /\ answer.kind = "slots"
    /\ Len(answer.slots) > 0
    /\ \E e \in ListedWithTimes :
           /\ e.start.wall.date = QueryDay
           /\ HourOf(e.start.wall) \in 9..16
           /\ MinuteOf(e.start.wall) \in RangeOf(SlotMinutes)
           /\ <<HourOf(e.start.wall), MinuteOf(e.start.wall)>>
                  \notin RangeOf(answer.slots)

\* C3: every slot returned for a service of duration d has its
\* whole interval [slot, slot+d) disjoint from every listed event interval.
C3_WholeSlotIntervalFree ==
    (answer.op = "get_available_slots" /\ answer.kind = "slots") =>
        \A slot \in RangeOf(answer.slots) : \A e \in ListedWithTimes :
            ~(/\ Before(SlotStart(slot), e.end.wall)
              /\ Before(e.start.wall,
                        PlusMinutes(SlotStart(slot), answer.duration)))

-----------------------------------------------------------------------------
(* SpecParser: parse_datetime called on bounded phrases and base dates     *)

\* The most calls of parse_datetime made with one phrase and base date
MaxEvaluations == 2

\* "%02d" of a number
TwoDigits(n) == <<DigitChars[(n \div 10) + 1], DigitChars[(n % 10) + 1]>>

\* "%02d:%02d" of a time
ClockText(hour, minute) == TwoDigits(hour) \o <<":">> \o TwoDigits(minute)

\* A weekday name, what follows it, and a time or nothing
WeekdaySuffixes ==
    { <<>>,
      <<"-", "f", "e", "i", "r", "a">>,
      <<" ", "f", "e", "i", "r", "a">> }

WeekdayTimes == { <<>>, <<" ">> \o ClockText(15, 30) }

WeekdayPhrase(w, suffix, time) == WeekdayWords[w] \o suffix \o time

WeekdayPhrases ==
    { WeekdayPhrase(w, suffix, time) :
        w \in 1..Len(WeekdayWords), suffix \in WeekdaySuffixes,
        time \in WeekdayTimes }

\* Times written alone: before, at and after the times of the base dates
BareTimes == { <<0, 0>>, <<9, 5>>, <<10, 0>>, <<14, 30>>, <<23, 59>> }

BareTimePhrases == { ClockText(hm[1], hm[2]) : hm \in BareTimes }

TomorrowAt14 == <<"a", "m", "a", "n", "h", "~a", " ", "^a", "s", " ", "1", "4",
        ":", "0", "0">>

OtherPhrases ==
    { <<"2", "5", ":", "0", "0">>,
      <<"h", "o", "j", "e">>,
      <<"a", "m", "a", "n", "h", "~a", " ", "d", "e", " ", "t", "a",
        "r", "d", "e">>,
      <<"d", "e", "p", "o", "i", "s", " ", "d", "e", " ", "a", "m",
        "a", "n", "h", "~a", " ", "1", "0", ":", "0", "0">>,
      <<"1", "2", "/", "0", "3", "/", "2", "0", "2", "4", " ", "1",
        "4", ":", "3", "0">>,
      <<"2", "0", "2", "4", "-", "0", "3", "-", "1", "2">>,
      <<"3", "1", "/", "1", "2", "/", "2", "0", "2", "4", " ", "2",
        "5", ":", "0", "0">>,
      <<"2", "9", "/", "0", "2">>,
      <<"1", "5", "/", "0", "8">>,
      <<"s", "e", "x", "t", "a", "-", "f", "e", "i", "r", "a", " ",
        "2", ":", "3", "0", " ", "p", "m">>,
      <<"S", "e", "x", "t", "a", "-", "F", "e", "i", "r", "a", " ",
        "1", "0", ":", "0", "0">>,
      <<"x", "y", "z">> }

\* Texts that hold a date with its year, some with a day, month or time
\* out of range
ExplicitPhrases ==
    { <<"3", "1", "/", "1", "2", "/", "2", "0", "2", "4", " ", "2",
        "5", ":", "0", "0">>,
      <<"3", "0", "/", "0", "2", "/", "2", "0", "2", "4">>,
      <<"2", "0", "2", "4", "-", "0", "2", "-", "3", "0", " ", "1",
        "0", ":", "0", "0">>,
      <<"2", "0", "2", "4", "/", "0", "8", "/", "1", "5", " ", "1",
        "2", ":", "6", "0">>,
      <<"0", "1", "/", "0", "1", "/", "2", "0", "2", "5">> }

\* A relative-day word, " de ", and a period of the day
RelativePeriodPhrase(k, p) ==
    RelativeWords[k] \o <<" ", "d", "e", " ">> \o time_periods[p].period

RelativePeriodPhrases ==
    { RelativePeriodPhrase(k, p) :
        k \in 1..Len(RelativeWords), p \in 1..Len(time_periods) }

\* "%d" of an hour
HourDigits(hour) == IF hour < 10 THEN <<DigitChars[hour + 1]>> ELSE TwoDigits(hour)

\* A 12-hour time "h:mm am" or "h:mm pm"
TwelveHourText(hour, minute, suffix) ==
    HourDigits(hour) \o <<":">> \o TwoDigits(minute) \o <<" ">> \o suffix

TwelveHours == {2, 11, 12}
TwelveMinutes == {15, 30}

TwelveHourPhrases ==
    { TwelveHourText(hour, minute, suffix) :
        hour \in TwelveHours, minute \in TwelveMinutes,
        suffix \in {<<"a", "m">>, <<"p", "m">>} }

\* Times with an hour or a minute out of range
OutOfRangeTimes == { <<"2", "5", ":", "0", "0">>, <<"1", "2", ":", "6", "0">>, <<"2", "4", ":", "0", "0", " ", "p", "m">> }

\* Days and months written alone as DD/MM: a leap day, the day of a base
\* date, days before and after the base dates
BareDates == { <<29, 2>>, <<28, 2>>, <<4, 8>>, <<15, 8>>, <<31, 12>>, <<1, 1>> }

DayMonthText(day, month) == TwoDigits(day) \o <<"/">> \o TwoDigits(month)

BareDatePhrases == { DayMonthText(dm[1], dm[2]) : dm \in BareDates }

\* Moments <<year, month, day, hour, minute>> written out and read back
RoundTripMoments ==
    { <<2024, 3, 12, 14, 30>>, <<2024, 2, 29, 0, 0>>,
      <<1999, 12, 31, 23, 59>>, <<2025, 1, 1, 9, 5>> }

FourDigits(n) == TwoDigits(n \div 100) \o TwoDigits(n % 100)

\* strftime("%d/%m/%Y %H:%M") of a moment
ExplicitText(m) ==
    TwoDigits(m[3]) \o <<"/">> \o TwoDigits(m[2]) \o <<"/">> \o FourDigits(m[1])
        \o <<" ">> \o ClockText(m[4], m[5])

RoundTripPhrases == { ExplicitText(m) : m \in RoundTripMoments }

Phrases ==
    WeekdayPhrases \cup BareTimePhrases \cup {TomorrowAt14} \cup OtherPhrases
        \cup ExplicitPhrases \cup RelativePeriodPhrases
        \cup TwelveHourPhrases \cup OutOfRangeTimes \cup BareDatePhrases
        \cup RoundTripPhrases

\* Base dates: every weekday, month and year ends, a leap day, with and
\* without seconds
BaseDates ==
    { Moment(2024, 8, d, 10, 0, 0) : d \in 4..10 }
    \cup { Moment(2024, 12, 31, 23, 59, 59),
           Moment(2024, 2, 28, 0, 0, 0),
           Moment(2024, 2, 29, 10, 0, 1),
           Moment(2024, 1, 31, 9, 59, 59) }

\* What the wall clock may read
ClockReadings == { Moment(2024, 8, 4, 10, 0, 0), Moment(2024, 8, 7, 16, 30, 0) }

InitParser ==
    /\ AgentIdle
    /\ SlotsIdle
    /\ LaterIdle
    /\ phrase \in [text : Phrases, base_date : BaseDates \cup {NoMoment}]
    /\ clock \in ClockReadings
    /\ extracted = <<>>
    /\ parsed = <<>>

\* One call parse_datetime(text, base_date)
Parse ==
    /\ Len(parsed) < MaxEvaluations
    /\ parsed' = Append(parsed,
                        [value |-> parse_datetime(phrase.text, phrase.base_date, clock),
                         at    |-> clock])
    /\ UNCHANGED <<phrase, clock, extracted, agentVars, slotVars, laterVars>>

\* validate_time_format(time_str): one call _extract_time(time_str) on the
\* text as it is given
ExtractTime ==
    /\ extracted = <<>>
    /\ extracted' = <<extract_time(phrase.text)>>
    /\ UNCHANGED <<phrase, clock, parsed, agentVars, slotVars, laterVars>>

\* Time passes between two calls
ClockAdvance ==
    /\ \E later \in ClockReadings :
           /\ Before(clock, later)
           /\ clock' = later
    /\ UNCHANGED <<phrase, parsed, extracted, agentVars, slotVars, laterVars>>

NextParser == Parse \/ ExtractTime \/ ClockAdvance

SpecParser == InitParser /\ [][NextParser]_vars

-----------------------------------------------------------------------------
(* Properties of SpecParser                                                *)

\* The calls made with an explicit base date
ExplicitBase == phrase.base_date # NoMoment

Values == { parsed[i].value : i \in 1..Len(parsed) }

\* C7: for every base date R and every weekday name X, written alone, with
\* "-feira" or with " feira", with or without a time, parse_datetime returns
\* a moment whose weekday is X, whose date is after R's date and at most 7
\* days after it, and exactly 7 days after it when R's weekday is X.
C7_WeekdayNameResolvesToNextOccurrence ==
    \A w \in 1..Len(WeekdayWords), suffix \in WeekdaySuffixes, time \in WeekdayTimes :
        (ExplicitBase /\ phrase.text = WeekdayPhrase(w, suffix, time)) =>
            \A v \in Values :
                /\ v # NoMoment
                /\ Weekday(v.date) = weekdays_pt[w]
                /\ v.date > phrase.base_date.date
                /\ v.date <= phrase.base_date.date + 7
                /\ (Weekday(phrase.base_date.date) = weekdays_pt[w]
                        => v.date = phrase.base_date.date + 7)

\* C8: for every base date R and valid time HH:MM, parse_datetime of the
\* text "HH:MM" returns R's date at HH:MM when R is before that instant and
\* the next day at HH:MM otherwise, also when R is exactly that instant.
C8_BareTimeTodayOrTomorrow ==
    \A hm \in BareTimes :
        (ExplicitBase /\ phrase.text = ClockText(hm[1], hm[2])) =>
            \A v \in Values :
                v = IF Before(phrase.base_date,
                              DateTime(phrase.base_date.date, hm[1], hm[2]))
                    THEN DateTime(phrase.base_date.date, hm[1], hm[2])
                    ELSE DateTime(phrase.base_date.date + 1, hm[1], hm[2])

\* "10:00" parsed at exactly 10:00:00 has gone to the next day
C8_Witness ==
    /\ ExplicitBase
    /\ phrase.text = ClockText(10, 0)
    /\ phrase.base_date.sec = 10 * 3600
    /\ parsed # <<>>
    /\ parsed[1].value = DateTime(phrase.base_date.date + 1, 10, 0)

\* C9: for every base date R, parse_datetime("amanhã às 14:00", R) is the
\* calendar day after R's date at 14:00, whatever R's time of day, across
\* month and year ends too.
C9_TomorrowAtFourteen ==
    (ExplicitBase /\ phrase.text = TomorrowAt14) =>
        \A v \in Values : v = DateTime(phrase.base_date.date + 1, 14, 0)

\* One second before the year ends, tomorrow is 1 January
C9_Witness ==
    /\ phrase.text = TomorrowAt14
    /\ phrase.base_date = Moment(2024, 12, 31, 23, 59, 59)
    /\ parsed # <<>>
    /\ parsed[1].value = DateTime(Ordinal(2025, 1, 1), 14, 0)

\* C10: with an explicit base date, two calls with the same text and base
\* date return the same value whatever the wall clock reads at each call.
C10_ResultIndependentOfClock ==
    ExplicitBase =>
        \A i, j \in 1..Len(parsed) : parsed[i].value = parsed[j].value

\* Two calls at different clock readings, on a text that resolves
C10_Witness ==
    /\ ExplicitBase
    /\ Len(parsed) = 2
    /\ parsed[1].at # parsed[2].at
    /\ parsed[1].value # NoMoment
    /\ parsed[1].value = parsed[2].value

\* The normalised text holds a match of date_br or date_iso
HasExplicitDate(text) ==
    \/ Search([i \in Positions(text) |-> date_br_at(text, i)]).ok
    \/ Search([i \in Positions(text) |-> date_iso_at(text, i)]).ok

\* C11: once the text holds a match of the explicit date pattern
\* (DD/MM/YYYY or YYYY/MM/DD), parse_datetime returns what the explicit
\* strategy returns, the moment of that date and time or the absent value
\* when a component is out of range; no later strategy supplies a date.
C11_ExplicitDateDecides ==
    HasExplicitDate(Strip(Lower(phrase.text))) =>
        \A i \in 1..Len(parsed) :
            parsed[i].value =
                parse_explicit_datetime(
                    Strip(Lower(phrase.text)),
                    IF ExplicitBase THEN phrase.base_date ELSE parsed[i].at)

\* C12: a text made of a relative-day word (hoje, amanhã, amanha, depois
\* de amanhã) and a period of the day (manhã, manha, tarde, noite,
\* meio-dia), with no HH:MM, resolves to the word's date at the period's
\* time in time_periods; "amanhã de tarde" is the day after the base date
\* at 14:00.
C12_RelativeDayAtPeriodTime ==
    \A k \in 1..Len(RelativeWords), p \in 1..Len(time_periods) :
        (ExplicitBase /\ phrase.text = RelativePeriodPhrase(k, p)) =>
            \A v \in Values :
                v = DateTime(phrase.base_date.date + RelativeDays[k],
                             time_periods[p].time[1], time_periods[p].time[2])

\* C13: for an hour h in 1..12 and a minute m, _extract_time of "h:mm pm"
\* returns ((h mod 12) + 12, m) and of "h:mm am" returns (h mod 12, m); a
\* time with an hour outside 0..23 or a minute outside 0..59 is no match.
C13_TwelveHourTimeConverted ==
    \A i \in 1..Len(extracted) :
        /\ \A hour \in TwelveHours, minute \in TwelveMinutes :
               /\ phrase.text = TwelveHourText(hour, minute, <<"p", "m">>)
                      => extracted[i] = <<(hour % 12) + 12, minute>>
               /\ phrase.text = TwelveHourText(hour, minute, <<"a", "m">>)
                      => extracted[i] = <<hour % 12, minute>>
        /\ phrase.text \in OutOfRangeTimes => extracted[i] = <<>>

\* The first date with this day and month after a date; a leap day comes
\* back within 8 years
NearestAfter(day, month, ord) ==
    LET years == { y \in YearOf(ord)..(YearOf(ord) + 8) :
                     ValidDate(y, month, day) /\ Ordinal(y, month, day) > ord }
    IN  Ordinal(Min(years), month, day)

\* C14: for every base date R and every day and month of a real calendar
\* date, the text "DD/MM" resolves to the nearest date with that day and
\* month after R's date, in R's year or a later one; the result is never
\* absent, also for 29/02 when the next year is no leap year.
C14_BareDateNearestFuture ==
    \A dm \in BareDates :
        (ExplicitBase /\ phrase.text = DayMonthText(dm[1], dm[2])) =>
            \A v \in Values :
                /\ v # NoMoment
                /\ v.date = NearestAfter(dm[1], dm[2], phrase.base_date.date)

\* C15: a moment of minute precision written as DD/MM/YYYY HH:MM is read
\* back by parse_datetime as that same moment, whatever the reference moment
\* and whatever the clock when none is given.
C15_ExplicitFormRoundTrip ==
    \A m \in RoundTripMoments :
        phrase.text = ExplicitText(m) =>
            \A i \in 1..Len(parsed) :
                parsed[i].value = DateTime(Ordinal(m[1], m[2], m[3]), m[4], m[5])

C15_Witness ==
    /\ phrase.text = ExplicitText(<<1999, 12, 31, 23, 59>>)
    /\ phrase.base_date = NoMoment
    /\ Len(parsed) = MaxEvaluations
    /\ parsed[MaxEvaluations].value = DateTime(Ordinal(1999, 12, 31), 23, 59)

-----------------------------------------------------------------------------
(* Properties of Spec: durations, suggestions, adapters                    *)

\* C16: an appointment created from a request that carries no duration
\* ends at its start plus the catalog duration of the requested service
\* (30 minutes for corte_simples); 60 minutes only for a service without one.
C16_EndFromCatalogDuration ==
    (last.op = "create" /\ last.kind = "created" /\ last.request.duration = <<>>) =>
        \A e \in events :
            e.id = last.event_id =>
                e.end.wall = PlusMinutes(RequestStart,
                                         CatalogDuration(last.request.service))

\* C17: the alternative times given with a refusal for a taken slot are
\* at most 3, in increasing order, each on a half hour at or after the
\* opening hour of the day, and each followed by the whole duration asked
\* for before the closing time of that day.
C17_SuggestionsFitBeforeClose ==
    (last.op = "create" /\ last.kind = "conflict") =>
        LET hours == business_hours[DayOfWeek(RequestDay)]
            slots == last.suggestions
            StartOf(i) == DateTime(RequestDay, slots[i][1], slots[i][2])
        IN  /\ Len(slots) <= MaxSuggestions
            /\ \A i \in 1..Len(slots) :
                   /\ slots[i][2] \in RangeOf(SlotMinutes)
                   /\ slots[i][1] >= hours.start[1]
                   /\ NotAfter(PlusMinutes(StartOf(i), DurationOf(last.request)),
                               DateTime(RequestDay, hours.end[1], hours.end[2]))
            /\ \A i \in 1..(Len(slots) - 1) : Before(StartOf(i), StartOf(i + 1))

\* The operation the keyword groups of a task select, in the order
\* schedule, list, cancel, modify, availability, and schedule for none
KeywordOperation(task_lower) ==
    IF HasAny(task_lower, Keywords.schedule) THEN "create_appointment"
    ELSE IF HasAny(task_lower, Keywords.list) THEN "list_appointments"
    ELSE IF HasAny(task_lower, Keywords.cancel) THEN "cancel_appointment"
    ELSE IF HasAny(task_lower, Keywords.modify) THEN "modify_appointment_placeholder"
    ELSE IF HasAny(task_lower, Keywords.availability) THEN "check_availability"
    ELSE "create_appointment"

\* C18: without an LLM, run(task) calls the operation of the first keyword
\* group the task has a word of, in the order schedule, list, cancel,
\* modify, availability, and schedules when it has none; a task whose only
\* keyword is a modify word is answered "not implemented" and leaves the
\* calendar as it was.
C18_KeywordDispatchWithoutLlm ==
    (~llm /\ task # NoTask) =>
        /\ task.operation = KeywordOperation(Lower(task.text))
        /\ KeywordOperation(Lower(task.text)) = "modify_appointment_placeholder" =>
               (last.kind = "not_implemented" /\ events = last.before)

\* C19: without calendar credentials the agent is served by the in-memory
\* adapter: a create_appointment request that passes validation, for a slot
\* no stored event overlaps, succeeds and its event is stored.
C19_NoCredentialsServedByMock ==
    (~credentials /\ last.op = "create" /\ AllFieldsPresent /\ ServiceKnown
        /\ DateAcceptable /\ ~ClosedDay /\ ValidTime(last.request.time)) =>
        (Overlapping(last.before) = {} =>
            /\ last.kind = "created"
            /\ \E e \in events :
                   e.id = last.event_id /\ e.start.wall = RequestStart)

\* C20: when get_events fails during create_appointment, the result is a
\* failure that carries the adapter's error, create_event is not called and
\* the calendar is left as it was.
C20_FailedLookupSurfaced ==
    (last.op = "create" /\ last.calls # <<>>
        /\ Head(last.calls) = Called("get_events", FALSE)) =>
        /\ ~last.success
        /\ last.kind = "adapter_error"
        /\ last.calls = <<Called("get_events", FALSE)>>
        /\ events = last.before

\* C22: every event create_appointment has stored lies within the business
\* hours of its weekday: it starts at or after the opening time and ends,
\* at its start plus the duration, at or before the closing time.
C22_StoredEventsWithinBusinessHours ==
    \A e \in events :
        LET day   == e.start.wall.date
            hours == business_hours[DayOfWeek(day)]
        IN  /\ hours.start # Closed
            /\ NotAfter(DateTime(day, hours.start[1], hours.start[2]), e.start.wall)
            /\ NotAfter(e.end.wall, DateTime(day, hours.end[1], hours.end[2]))

\* The rules of validation a request breaks, read from the request alone
BreaksValidation ==
    ~AllFieldsPresent \/ ~ServiceKnown \/ ~DateAcceptable \/ ClosedDay

\* C23: create_appointment calls create_event at most once, and only
\* after a validation that passed and then an availability check that found
\* the slot free; a request that fails validation makes no calendar call,
\* a conflict makes no create_event, and every failure result leaves the
\* stored events as they were.
C23_CalendarCallsInOrder ==
    last.op = "create" =>
        /\ BreaksValidation => last.calls = <<>>
        /\ last.kind \in {"required", "service", "date_format", "past", "closed",
                          "exception"} => last.calls = <<>>
        /\ last.kind = "conflict" => last.calls = <<Called("get_events", TRUE)>>
        /\ (client = "mock" /\ last.calls # <<>> /\ Overlapping(last.before) # {}) =>
               "create_event" \notin RangeOf(last.calls)
        /\ "create_event" \in RangeOf(last.calls) =>
               /\ Len(last.calls) = 2
               /\ last.calls[2] = "create_event"
               /\ last.calls[1] \in {Called("get_events", ok) : ok \in BOOLEAN}
               /\ ~BreaksValidation
        /\ ~last.success => events = last.before

\* C23 witness: a request that passed validation met a stored event; only
\* get_events was called and the calendar is as before.
C23_Witness ==
    /\ last.op = "create" /\ last.kind = "conflict"
    /\ last.calls = <<Called("get_events", TRUE)>>
    /\ events # {} /\ events = last.before

\* C27: when create_appointment refuses a request because its slot is
\* taken, none of the alternative times it suggests is the start time that
\* was asked for.
C27_SuggestionsExcludeRequestedTime ==
    (last.op = "create" /\ last.kind = "conflict") =>
        \A i \in 1..Len(last.suggestions) :
            last.suggestions[i] # <<last.request.time.h, last.request.time.mi>>

-----------------------------------------------------------------------------
(* Properties of SpecRun                                                   *)

\* C26, for every result: whatever the task and whatever the LLM and the
\* calendar adapter answer, run(task) returns a result with a boolean
\* success and a message.
C26_EveryResultHasMessage ==
    task # NoTask =>
        (last.success \in BOOLEAN /\ HasMessage(last.op, last.kind))

\* C26, for the failure results: whatever the task and whatever the LLM and
\* the calendar adapter answer, also for a cancel without an appointment
\* identifier, run(task) returns a result with a boolean success, and every
\* result with success false carries a message.
C26_EveryFailureHasMessage ==
    task # NoTask =>
        /\ last.success \in BOOLEAN
        /\ ~last.success => HasMessage(last.op, last.kind)

\* C26 witness: a cancel task run without an appointment identifier was
\* answered by run as a failure.
C26_Witness ==
    /\ task.operation = "cancel_appointment"
    /\ last.op = "run" /\ last.kind = "exception" /\ ~last.success

\* C24: no request given to the agent changes the start or the end of a
\* stored event: every event still stored after a step is as it was before
\* the step; and a request classified as modify is answered success false,
\* as not implemented, with the stored events left as they were.
C24_StoredEventsKeepTimes ==
    /\ [](last.op = "modify" =>
             (~last.success /\ last.kind = "not_implemented"
                 /\ events = last.before))
    /\ [][\A e \in events : \A f \in events' : f.id = e.id => f = e]_vars

\* C24 witness: a request classified as modify was answered while the
\* calendar held an event, and the calendar is as before.
C24_Witness ==
    /\ last.op = "modify" /\ task.operation = "modify_appointment_placeholder"
    /\ events # {} /\ events = last.before

-----------------------------------------------------------------------------
(* SpecNextDay: get_next_business_day, one evaluation of the loop at a time *)

\* The most days a search is followed past its date
MaxSearchDays == 10

\* date.max, past which adding a timedelta raises OverflowError
MaxOrdinal == Ordinal(9999, 12, 31)

\* The dates searched from: a week of 2024 and the last two days of date.max
SearchDates ==
    { DateTime(Ordinal(2024, 8, 2) + i, 10, 0) : i \in 0..6 }
        \cup { DateTime(MaxOrdinal - 1, 10, 0), DateTime(MaxOrdinal, 10, 0) }

\* The business_days given: the default Monday to Saturday, other days, the
\* empty list, lists with no weekday number in them
BusinessDayLists == { {0, 1, 2, 3, 4, 5}, {6}, {0, 4}, {}, {7}, {-1, 9} }

InitNextDay ==
    /\ search \in [dt : SearchDates, business_days : BusinessDayLists,
                    next_day : {[date |-> 0, sec |-> 0]}, status : {"called"}]
    /\ AgentIdle /\ SlotsIdle /\ ParserIdle
    /\ BookingIdle /\ SimpleAgentIdle /\ DbIdle

\* dt + timedelta(days=1), or the OverflowError it raises
AddOneDay(dt, status) ==
    IF dt.date + 1 > MaxOrdinal
    THEN [search EXCEPT !.status = "OverflowError"]
    ELSE [search EXCEPT !.next_day = PlusDays(dt, 1), !.status = status]

\* get_next_business_day: next_day = dt + timedelta(days=1), then one test
\* of the while condition with the body it guards, then the return
GetNextBusinessDay ==
    /\ \/ /\ search.status = "called"
          /\ search' = AddOneDay(search.dt, "looping")
       \/ /\ search.status = "looping"
          /\ Weekday(search.next_day.date) \notin search.business_days
          /\ search.next_day.date - search.dt.date < MaxSearchDays
          /\ search' = AddOneDay(search.next_day, "looping")
       \/ /\ search.status = "looping"
          /\ Weekday(search.next_day.date) \in search.business_days
          /\ search' = [search EXCEPT !.status = "returned"]
    /\ UNCHANGED <<agentVars, slotVars, parserVars, booking, simple_agent, db>>

SpecNextDay == InitNextDay /\ [][GetNextBusinessDay]_vars

\* C25: for every date and every list of business weekdays, also an empty
\* list or one with no value in 0..6, get_next_business_day ends by
\* returning, at the same time of day, the first day after the date whose
\* weekday is in the list, at most 7 days after the date.
C25_NextBusinessDayWithinWeek ==
    LET first == search.dt.date + 1
        found == search.next_day.date
    IN  /\ search.status # "OverflowError"
        /\ search.status = "looping" => found - search.dt.date <= 7
        /\ search.status = "returned" =>
               /\ found \in first..(search.dt.date + 7)
               /\ search.next_day.sec = search.dt.sec
               /\ Weekday(found) \in search.business_days
               /\ \A d \in first..(found - 1) :
                      Weekday(d) \notin search.business_days

-----------------------------------------------------------------------------
(* SpecBusy: run() calls on one SimpleAgent, interleaved at their awaits   *)

\* The run() calls that may be in progress together
MaxRuns == 3

\* Each call is "idle" (not made), "sleeping" (at await asyncio.sleep),
\* "invoking" (at await self.model_client.invoke), "returned" or
\* "cancelled" (asyncio.CancelledError raised at an await)
InitBusy ==
    /\ simple_agent \in [is_busy : {FALSE}, model_client : BOOLEAN,
                          runs : {[i \in 1..MaxRuns |-> "idle"]}]
    /\ AgentIdle /\ SlotsIdle /\ ParserIdle
    /\ SearchIdle /\ BookingIdle /\ DbIdle

\* set_busy(busy) together with the place the call moves to
set_busy(busy, i, place) ==
    [simple_agent EXCEPT !.is_busy = busy, !.runs[i] = place]

\* SimpleAgent.run: from the call to the sleep with set_busy(True); from
\* the sleep to the invoke of the model client, or without one to the
\* return through finally with set_busy(False); from the invoke, whether
\* it answers or raises, to the return; a cancellation at an await leaves
\* through finally as well
SimpleAgentRun ==
    /\ \E i \in 1..MaxRuns :
          \/ /\ simple_agent.runs[i] = "idle"
             /\ simple_agent' = set_busy(TRUE, i, "sleeping")
          \/ /\ simple_agent.runs[i] = "sleeping"
             /\ simple_agent.model_client
             /\ simple_agent' = [simple_agent EXCEPT !.runs[i] = "invoking"]
          \/ /\ simple_agent.runs[i] = "sleeping"
             /\ ~simple_agent.model_client
             /\ simple_agent' = set_busy(FALSE, i, "returned")
          \/ /\ simple_agent.runs[i] = "invoking"
             /\ simple_agent' = set_busy(FALSE, i, "returned")
          \/ /\ simple_agent.runs[i] \in {"sleeping", "invoking"}
             /\ simple_agent' = set_busy(FALSE, i, "cancelled")
    /\ UNCHANGED <<agentVars, slotVars, parserVars, search, booking, db>>

SpecBusy == InitBusy /\ [][SimpleAgentRun]_vars

\* C28: is_busy is true exactly while at least one run() call on the
\* agent is in progress, however the calls interleave, and so it is false
\* once the last call has returned or raised.
C28_BusyWhileAnyRunInProgress ==
    simple_agent.is_busy <=>
        \E i \in DOMAIN simple_agent.runs :
            simple_agent.runs[i] \in {"sleeping", "invoking"}

-----------------------------------------------------------------------------
(* SpecStore: save_history_context and update_user_tool over MongoDB       *)

\* A document of users or customers: the fields the update tool may set
Document(name, phone) == [name |-> name, phone |-> phone]

\* An event of the session: its id, whether its timestamp is within the
\* last five minutes, and how many non-empty fields the parts of its
\* content have in all (none for an event without content)
SessionEvent(id, recent, fields) == [id |-> id, recent |-> recent, fields |-> fields]

EventIds == {"e1", "e2"}

\* The most non-empty part fields of one event
MaxFields == 2

\* The sessions the callback is called with: one or two events, no id twice
Sessions ==
    LET E == { SessionEvent(id, r, n) :
                 id \in EventIds, r \in BOOLEAN, n \in 0..MaxFields }
    IN  { <<e>> : e \in E }
            \cup { <<p[1], p[2]>> : p \in {q \in E \X E : q[1].id # q[2].id} }

InitStore ==
    /\ db = [conversation_history |-> {},
             users |-> ("u1" :> Document("Ana", "1")),
             customers |-> ("c1" :> Document("Barbearia", "2")),
             call |-> NoDbCall]
    /\ AgentIdle /\ SlotsIdle /\ ParserIdle
    /\ SearchIdle /\ BookingIdle /\ SimpleAgentIdle

\* The loop of save_history_context over the events left: an event is
\* skipped when it is not recent or find returns its _id; otherwise one
\* insert_one with _id = event.id is issued for every non-empty field of
\* every part, and the second one for an event raises DuplicateKeyError,
\* which ends the call
RECURSIVE save_events(_, _, _)
save_events(session_events, stored, inserts) ==
    IF session_events = <<>>
    THEN [stored |-> stored, inserts |-> inserts, raised |-> FALSE]
    ELSE LET event == Head(session_events) IN
         IF ~event.recent \/ event.id \in stored \/ event.fields = 0
         THEN save_events(Tail(session_events), stored, inserts)
         ELSE IF event.fields = 1
         THEN save_events(Tail(session_events), stored \cup {event.id},
                          Append(inserts, event.id))
         ELSE [stored |-> stored \cup {event.id},
               inserts |-> inserts \o <<event.id, event.id>>,
               raised |-> TRUE]

\* save_history_context(callback_context)
SaveHistoryContext ==
    /\ \E session_events \in Sessions :
          LET saved == save_events(session_events, db.conversation_history, <<>>)
          IN  db' = [db EXCEPT
                        !.conversation_history = saved.stored,
                        !.call = [op |-> "save_history_context",
                                  before |-> db.conversation_history,
                                  inserts |-> saved.inserts,
                                  raised |-> saved.raised]]
    /\ UNCHANGED <<agentVars, slotVars, parserVars, search, booking, simple_agent>>

\* MongoDatabase.update_one(collection, {"_id": id}, update): $set on the
\* document with that _id, nothing when there is none
update_one(collection, id, update) ==
    IF id \in DOMAIN collection
    THEN [collection EXCEPT ![id] =
             [f \in DOMAIN @ |-> IF update[f] # "" THEN update[f] ELSE @[f]]]
    ELSE collection

\* update_user_tool(id, name, phone, ...): the non-empty fields are set with
\* update_one on the collection "customers"
UpdateUserTool ==
    /\ \E id \in {"u1", "u2", "c1"}, name \in {"", "Bia"}, phone \in {"", "9"} :
          db' = [db EXCEPT
                    !.customers = IF name # "" \/ phone # ""
                                  THEN update_one(@, id, Document(name, phone))
                                  ELSE @,
                    !.call = [op |-> "update_user_tool", id |-> id,
                              update |-> Document(name, phone),
                              users |-> db.users, customers |-> db.customers]]
    /\ UNCHANGED <<agentVars, slotVars, parserVars, search, booking, simple_agent>>

NextStore == SaveHistoryContext \/ UpdateUserTool

SpecStore == InitStore /\ [][NextStore]_vars

\* C29: a call of save_history_context issues at most one insert per event
\* id and none whose _id is already stored, also for an event with several
\* parts or several non-empty part fields, so no insert meets a duplicate
\* key.
C29_OneInsertPerEvent ==
    db.call.op = "save_history_context" =>
        /\ ~db.call.raised
        /\ \A i \in 1..Len(db.call.inserts) :
               /\ db.call.inserts[i] \notin db.call.before
               /\ \A j \in 1..(i - 1) : db.call.inserts[j] # db.call.inserts[i]

\* C30: update_user_tool writes only to the users collection: after a
\* call every document of customers is as before, and when a user with
\* the id given exists, its fields given non-empty hold the values given.
C30_UpdateWritesUsersOnly ==
    db.call.op = "update_user_tool" =>
        /\ db.customers = db.call.customers
        /\ db.call.id \in DOMAIN db.call.users =>
               \A f \in {"name", "phone"} :
                   db.call.update[f] # "" =>
                       db.users[db.call.id][f] = db.call.update[f]

-----------------------------------------------------------------------------
(* SpecBooking: two create_appointment calls for one calendar              *)

\* The requests of the two calls: the same window, overlapping windows, a
\* later window, and a day the shop is closed
BookingRequests ==
    { Request("Ana", "corte_simples", DateText(2024, 8, 5), TimeText(9, 0), <<>>),
      Request("Bia", "corte_simples", DateText(2024, 8, 5), TimeText(9, 15), <<30>>),
      Request("Ana", "corte_simples", DateText(2024, 8, 5), TimeText(11, 0), <<>>),
      Request("Bia", "corte_simples", DateText(2024, 8, 4), TimeText(9, 0), <<>>) }

\* A call of create_appointment: its request, the event loop (of a thread
\* or a process) that runs it, where it is, the events the calendar held
\* and the answer of _check_slot_availability when it asked, the answer of
\* create_event, and the result it returned
Call(req, loop) ==
    [request |-> req, loop |-> loop, place |-> "called", before |-> {},
     listed |-> Failure, available |-> FALSE, outcome |-> "",
     success |-> FALSE, id |-> 0,
     start_datetime |-> NoDateTimeValue, end_datetime |-> NoDateTimeValue]

\* The mock calendar is the memory of one agent, whose calls run on its one
\* event loop; a Google calendar is shared by every worker that books on it
InitBooking ==
    /\ client \in {"mock", "google"}
    /\ credentials \in (IF client = "mock" THEN {FALSE} ELSE BOOLEAN)
    /\ events = {}
    /\ event_counter = 1
    /\ today = StartDay
    /\ last = NoLast
    /\ llm = FALSE
    /\ task = NoTask
    /\ booking \in { <<Call(r1, 1), Call(r2, loop)>> :
                        r1 \in BookingRequests, r2 \in BookingRequests,
                        loop \in (IF client = "mock" THEN {1} ELSE {1, 2}) }
    /\ SlotsIdle /\ ParserIdle
    /\ SearchIdle /\ SimpleAgentIdle /\ DbIdle

\* create_appointment from the start to the answer of the availability
\* check: the call returns when validation fails or the slot is taken, and
\* goes on to create_event otherwise
check_before_event(call, stored, existing) ==
    LET v == validate_appointment(call.request, today) IN
    IF ~v.valid THEN [call EXCEPT !.place = "returned", !.before = stored]
    ELSE LET availability ==
                 check_slot_availability(call.request.date,
                                         DurationOf(call.request), existing)
         IN  [call EXCEPT
                 !.place = IF availability.available THEN "checked" ELSE "returned",
                 !.before = stored,
                 !.listed = existing,
                 !.available = availability.available,
                 !.start_datetime = v.start_datetime,
                 !.end_datetime = v.end_datetime]

\* create_appointment creating the event only when no stored event overlaps
\* the window of the call
book_event_Rechecked(call, stored, outcome, id) ==
    IF outcome = "ok" /\ stored = {}
    THEN [call |-> [call EXCEPT !.place = "returned", !.outcome = outcome,
                                !.success = TRUE, !.id = id],
          events |-> {[id    |-> id,
                       start |-> IsoText(call.start_datetime, ""),
                       end   |-> IsoText(call.end_datetime, "")]}]
    ELSE [call |-> [call EXCEPT !.place = "returned", !.outcome = outcome],
          events |-> stored]

\* create_appointment from create_event to its return: the event is stored
\* whatever the calendar holds by now
book_event(call, stored, outcome, id) ==
    IF outcome = "ok"
    THEN [call |-> [call EXCEPT !.place = "returned", !.outcome = outcome,
                                !.success = TRUE, !.id = id],
          events |-> stored \cup
                       {[id    |-> id,
                         start |-> IsoText(call.start_datetime, ""),
                         end   |-> IsoText(call.end_datetime, "")]}]
    ELSE [call |-> [call EXCEPT !.place = "returned", !.outcome = outcome],
          events |-> stored]

\* A call on the same event loop is between its availability check and its
\* create_event: the adapters do not suspend, so the loop runs nothing else
LoopHeld(i) ==
    \E j \in DOMAIN booking :
        j # i /\ booking[j].loop = booking[i].loop /\ booking[j].place = "checked"

\* A call runs up to the answer of its availability check
BookingCheck ==
    /\ \E i \in DOMAIN booking :
          /\ booking[i].place = "called"
          /\ ~LoopHeld(i)
          /\ \E existing \in get_events(events, NoDateTimeValue, NoDateTimeValue) :
                booking' = [booking EXCEPT
                               ![i] = check_before_event(@, events, existing)]
    /\ UNCHANGED <<agentVars, slotVars, parserVars, search, simple_agent, db>>

\* A call that found the slot free calls create_event and returns
BookingCreate ==
    /\ \E i \in DOMAIN booking :
          /\ booking[i].place = "checked"
          /\ \E outcome \in create_event_outcomes :
                LET booked == book_event(booking[i], events, outcome, event_counter)
                IN  /\ booking' = [booking EXCEPT ![i] = booked.call]
                    /\ events' = booked.events
                    /\ event_counter' = IF outcome = "ok" THEN event_counter + 1
                                        ELSE event_counter
    /\ UNCHANGED <<client, credentials, today, last, llm, task,
                   slotVars, parserVars, search, simple_agent, db>>

NextBooking == BookingCheck \/ BookingCreate

SpecBooking == InitBooking /\ [][NextBooking]_vars

\* The windows of two calls overlap
WindowsOverlap(a, b) ==
    /\ Before(a.start_datetime, b.end_datetime)
    /\ Before(b.start_datetime, a.end_datetime)

\* C21: nothing between the availability check and create_event looks at
\* the calendar again: a call that was answered that its slot is free and
\* whose create_event succeeded returns success with its event stored,
\* whatever was stored since its check.  So two calls with overlapping
\* windows whose checks both run before either create_event both succeed
\* and leave two overlapping events.
C21_FreeAtCheckIsBooked ==
    \A i \in DOMAIN booking :
        (booking[i].place = "returned" /\ booking[i].available
            /\ booking[i].outcome = "ok")
        => /\ booking[i].success
           /\ \E e \in events :
                 /\ e.id = booking[i].id
                 /\ e.start = IsoText(booking[i].start_datetime, "")
                 /\ e.end = IsoText(booking[i].end_datetime, "")

\* Both calls were truly answered that the calendar is empty, both returned
\* success, and the calendar holds their two overlapping events
C21_Witness ==
    /\ Len(booking) = 2
    /\ \A i \in {1, 2} :
          /\ booking[i].place = "returned" /\ booking[i].success
          /\ booking[i].before = {}
          /\ booking[i].listed = [success |-> TRUE, events |-> {}]
          /\ \E e \in events : e.id = booking[i].id
    /\ booking[1].id # booking[2].id
    /\ WindowsOverlap(booking[1], booking[2])
    /\ Cardinality(events) = 2

=============================================================================
